---- MODULE Spec2Model ----
(***************************************************************************)
(* GPUSortedMap: a fixed-capacity sorted key/value slab kept on the device *)
(* and mutated by batched compute pipelines.                               *)
(*                                                                         *)
(* Two generations of the map live in the repository and both are          *)
(* modelled:                                                               *)
(*   - the baseline pipeline (src/src/pipelines/*.rs, src/src/pipeline.rs, *)
(*     src/src/gpu_array.rs): bitonic sort, serial dedup, serial merge,    *)
(*     in-place delete, binary-search get;                                 *)
(*   - the monolithic GpuSortedMap of src/src/lib.rs (same code in         *)
(*     src/src/ops.rs): radix sort, flag/scan dedup, chunked merge,        *)
(*     delete implemented as a put of tombstones.                          *)
(*                                                                         *)
(* The host orchestration of the baseline map is not in src/; it follows  *)
(* the written design (validation, net-new capacity check, update_len,     *)
(* live count).                                                            *)
(*                                                                         *)
(* Specifications: Spec (the baseline map), SpecPipe (one call of          *)
(* BulkPutPipeline::execute), SpecLib (the lib.rs map), SpecArray          *)
(* (GpuArray). Each keeps the variables of the others constant.            *)
(*                                                                         *)
(* Words are scaled from 32 bits to WordBits bits; keys and values are     *)
(* only compared and copied, never added, so no overflow is involved.      *)
(* Device buffers are 0-based in the shaders and 1-based sequences here:   *)
(* buffer index i is element i + 1.                                        *)
(***************************************************************************)
EXTENDS Integers, Sequences, FiniteSets, TLC

\* ------------------------------------------------------------------ bounds
WordBits == 2
MaxCapacity == 4
MaxBatch == 3
MaxLibBatch == 2
MaxLibCapacity == 3
\* Entries per merge chunk (256 in the shader, scaled with the capacities)
ChunkSize == 2
\* Threads of the merge workgroup
WORKGROUP_SIZE == 64

\* u32::MAX at the scaled width
U32_MAX == 2^WordBits - 1
TOMBSTONE_VALUE == U32_MAX
\* Sentinel entry used to pad a batch to a power of two
PAD_KEY == U32_MAX
PAD_VALUE == 0

\* Option::None of a lookup result
NONE == 0 - 1

Keys == {0, 1, U32_MAX}
PutValues == {1, 2, TOMBSTONE_VALUE}
Entries == [key : Keys, value : PutValues]
ZeroEntry == [key |-> 0, value |-> 0]

Batches == {<<>>} \cup UNION {[1..n -> Entries] : n \in 1..MaxBatch}
KeyBatches == {<<>>} \cup UNION {[1..n -> Keys] : n \in 1..MaxBatch}

\* What is passed to the lib.rs map and to the GpuArray
LibBatches == {<<>>} \cup UNION {[1..n -> Entries] : n \in 1..MaxLibBatch}
LibKeyBatches == {<<>>} \cup UNION {[1..n -> Keys] : n \in 1..MaxLibBatch}
ArrayData == {<<>>} \cup UNION {[1..n -> {1, 2}] : n \in 1..MaxBatch}

Min(a, b) == IF a < b THEN a ELSE b

Range(s) == {s[i] : i \in 1..Len(s)}
KeySet(s) == {s[i].key : i \in 1..Len(s)}

\* A buffer's contents as an explicit tuple of its elements
AsBuffer(f) == SubSeq(f, 1, Len(f))

\* A zero-initialised device buffer of `cap` entries
ZeroBuffer(cap) == AsBuffer([i \in 1..cap |-> ZeroEntry])

\* queue.write_buffer(buffer, offset, data): elements offset.. are replaced
WriteBuffer(buf, offset, data) ==
    AsBuffer([i \in 1..Len(buf) |->
        IF i > offset /\ i <= offset + Len(data) THEN data[i - offset] ELSE buf[i]])

\* ------------------------------------------------------------ bit helpers
RECURSIVE BitXor(_, _)
BitXor(a, b) ==
    IF a = 0 THEN b
    ELSE IF b = 0 THEN a
    ELSE (((a % 2) + (b % 2)) % 2) + 2 * BitXor(a \div 2, b \div 2)

RECURSIVE BitAnd(_, _)
BitAnd(a, b) ==
    IF a = 0 \/ b = 0 THEN 0
    ELSE ((a % 2) * (b % 2)) + 2 * BitAnd(a \div 2, b \div 2)

RECURSIVE NextPow2From(_, _)
NextPow2From(p, n) == IF p >= n THEN p ELSE NextPow2From(2 * p, n)
\* u32::next_power_of_two (0 and 1 give 1)
next_power_of_two(n) == NextPow2From(1, n)

\* ------------------------------------------ baseline: BULK_SORT_WGSL main
\* One (k, j) pass. Thread i acts when (i ^ j) > i; the pairs are disjoint, so
\* the pass is the function of the buffer computed here. i, ixj are 0-based.
\* The comparison of a pass that ignores the direction bit (i & k)
SortSwapsAscending(data, i, ixj, k) == data[i + 1].key > data[ixj + 1].key

SortSwaps(data, i, ixj, k) ==
    IF BitAnd(i, k) = 0
    THEN data[i + 1].key > data[ixj + 1].key
    ELSE data[i + 1].key < data[ixj + 1].key

SortPass(data, k, j, len) ==
    AsBuffer([p \in 1..Len(data) |->
        LET q   == p - 1
            r   == BitXor(q, j)
            lo  == Min(q, r)
            hi  == IF q < r THEN r ELSE q
        IN  IF q < len /\ r < len /\ SortSwaps(data, lo, hi, k)
            THEN data[r + 1]
            ELSE data[p]])

\* BulkPutPipeline::run_sort_step: k in 2,4,..,padded_len; j in k/2,..,1
RECURSIVE SortSchedule(_, _, _, _)
SortSchedule(data, k, j, padded_len) ==
    IF k > padded_len THEN data
    ELSE IF j = 0 THEN SortSchedule(data, 2 * k, k, padded_len)
    ELSE SortSchedule(SortPass(data, k, j, padded_len), k, j \div 2, padded_len)

run_sort_step(data, padded_len) == SortSchedule(data, 2, 1, padded_len)

\* ----------------------------------------- baseline: BULK_DEDUP_WGSL main
\* The dedup walk that keeps the first entry of a run of equal keys
RECURSIVE DedupLoopKeepsFirst(_, _, _, _, _)
DedupLoopKeepsFirst(data, len, i, write_idx, prev_key) ==
    IF i >= len THEN [data |-> data, len |-> write_idx]
    ELSE LET entry == data[i + 1]
         IN  IF write_idx = 0
             THEN DedupLoopKeepsFirst([data EXCEPT ![1] = entry], len, i + 1, 1,
                                      entry.key)
             ELSE IF entry.key = prev_key
             THEN DedupLoopKeepsFirst(data, len, i + 1, write_idx, prev_key)
             ELSE DedupLoopKeepsFirst([data EXCEPT ![write_idx + 1] = entry], len,
                                      i + 1, write_idx + 1, entry.key)

RECURSIVE DedupLoop(_, _, _, _, _)
DedupLoop(data, len, i, write_idx, prev_key) ==
    IF i >= len THEN [data |-> data, len |-> write_idx]
    ELSE LET entry == data[i + 1]
         IN  IF write_idx = 0
             THEN DedupLoop([data EXCEPT ![1] = entry], len, i + 1, 1, entry.key)
             ELSE IF entry.key = prev_key
             THEN DedupLoop([data EXCEPT ![write_idx] = entry], len, i + 1,
                            write_idx, prev_key)
             ELSE DedupLoop([data EXCEPT ![write_idx + 1] = entry], len, i + 1,
                            write_idx + 1, entry.key)

\* Returns the input buffer after the pass and dedup_meta.len
run_dedup_step(data, len) ==
    IF len = 0 THEN [data |-> data, len |-> 0]
    ELSE DedupLoop(data, len, 0, 0, 0)

\* A shader store to a runtime-sized array. An index past the end is an
\* out-of-bounds write, which robust buffer access discards; the host's capacity
\* precondition keeps every store of the checked runs in bounds.
Store(buf, idx, e) == IF idx < Len(buf) THEN [buf EXCEPT ![idx + 1] = e] ELSE buf

\* A merge loop that does not collapse a key present on both sides: the input
\* entry is stored and the slab entry of the same key follows it.
RECURSIVE MergeLoopKeepsBoth(_, _, _, _, _, _, _, _)
MergeLoopKeepsBoth(slab_b, input_b, output, slab_len_d, input_len, i, j, k) ==
    IF i < slab_len_d /\ j < input_len
    THEN IF slab_b[i + 1].key < input_b[j + 1].key
         THEN MergeLoopKeepsBoth(slab_b, input_b, Store(output, k, slab_b[i + 1]),
                                 slab_len_d, input_len, i + 1, j, k + 1)
         ELSE MergeLoopKeepsBoth(slab_b, input_b, Store(output, k, input_b[j + 1]),
                                 slab_len_d, input_len, i, j + 1, k + 1)
    ELSE IF i < slab_len_d
    THEN MergeLoopKeepsBoth(slab_b, input_b, Store(output, k, slab_b[i + 1]),
                            slab_len_d, input_len, i + 1, j, k + 1)
    ELSE IF j < input_len
    THEN MergeLoopKeepsBoth(slab_b, input_b, Store(output, k, input_b[j + 1]),
                            slab_len_d, input_len, i, j + 1, k + 1)
    ELSE [output |-> output, len |-> k]

\* A merge loop that keeps the slab's entry for a key present on both sides
RECURSIVE MergeLoopSlabWins(_, _, _, _, _, _, _, _)
MergeLoopSlabWins(slab_b, input_b, output, slab_len_d, input_len, i, j, k) ==
    IF i < slab_len_d /\ j < input_len
    THEN LET a == slab_b[i + 1]
             b == input_b[j + 1]
         IN  IF a.key < b.key
             THEN MergeLoopSlabWins(slab_b, input_b, Store(output, k, a), slab_len_d,
                                    input_len, i + 1, j, k + 1)
             ELSE IF b.key < a.key
             THEN MergeLoopSlabWins(slab_b, input_b, Store(output, k, b), slab_len_d,
                                    input_len, i, j + 1, k + 1)
             ELSE MergeLoopSlabWins(slab_b, input_b, Store(output, k, a), slab_len_d,
                                    input_len, i + 1, j + 1, k + 1)
    ELSE IF i < slab_len_d
    THEN MergeLoopSlabWins(slab_b, input_b, Store(output, k, slab_b[i + 1]),
                           slab_len_d, input_len, i + 1, j, k + 1)
    ELSE IF j < input_len
    THEN MergeLoopSlabWins(slab_b, input_b, Store(output, k, input_b[j + 1]),
                           slab_len_d, input_len, i, j + 1, k + 1)
    ELSE [output |-> output, len |-> k]

\* ----------------------------------------- baseline: BULK_MERGE_WGSL main
\* A merge loop that compacts: a tombstoned slab entry whose key the input
\* does not hold is dropped instead of copied.
RECURSIVE MergeLoopDropsTombstones(_, _, _, _, _, _, _, _)
MergeLoopDropsTombstones(slab_b, input_b, output, slab_len_d, input_len, i, j, k) ==
    IF i < slab_len_d /\ slab_b[i + 1].value = TOMBSTONE_VALUE
       /\ (j >= input_len \/ slab_b[i + 1].key < input_b[j + 1].key)
    THEN MergeLoopDropsTombstones(slab_b, input_b, output, slab_len_d, input_len,
                                  i + 1, j, k)
    ELSE IF i < slab_len_d /\ j < input_len
    THEN LET a == slab_b[i + 1]
             b == input_b[j + 1]
         IN  IF a.key < b.key
             THEN MergeLoopDropsTombstones(slab_b, input_b, Store(output, k, a),
                                           slab_len_d, input_len, i + 1, j, k + 1)
             ELSE IF b.key < a.key
             THEN MergeLoopDropsTombstones(slab_b, input_b, Store(output, k, b),
                                           slab_len_d, input_len, i, j + 1, k + 1)
             ELSE MergeLoopDropsTombstones(slab_b, input_b, Store(output, k, b),
                                           slab_len_d, input_len, i + 1, j + 1, k + 1)
    ELSE IF i < slab_len_d
    THEN MergeLoopDropsTombstones(slab_b, input_b, Store(output, k, slab_b[i + 1]),
                                  slab_len_d, input_len, i + 1, j, k + 1)
    ELSE IF j < input_len
    THEN MergeLoopDropsTombstones(slab_b, input_b, Store(output, k, input_b[j + 1]),
                                  slab_len_d, input_len, i, j + 1, k + 1)
    ELSE [output |-> output, len |-> k]

RECURSIVE MergeLoop(_, _, _, _, _, _, _, _)
MergeLoop(slab_b, input_b, output, slab_len_d, input_len, i, j, k) ==
    IF i < slab_len_d /\ j < input_len
    THEN LET a == slab_b[i + 1]
             b == input_b[j + 1]
         IN  IF a.key < b.key
             THEN MergeLoop(slab_b, input_b, Store(output, k, a), slab_len_d,
                            input_len, i + 1, j, k + 1)
             ELSE IF b.key < a.key
             THEN MergeLoop(slab_b, input_b, Store(output, k, b), slab_len_d,
                            input_len, i, j + 1, k + 1)
             ELSE MergeLoop(slab_b, input_b, Store(output, k, b), slab_len_d,
                            input_len, i + 1, j + 1, k + 1)
    ELSE IF i < slab_len_d
    THEN MergeLoop(slab_b, input_b, Store(output, k, slab_b[i + 1]), slab_len_d,
                   input_len, i + 1, j, k + 1)
    ELSE IF j < input_len
    THEN MergeLoop(slab_b, input_b, Store(output, k, input_b[j + 1]), slab_len_d,
                   input_len, i, j + 1, k + 1)
    ELSE [output |-> output, len |-> k]

\* The merge shader: the output buffer after the pass and merge_meta.len
MergeShader(slab_b, input_b, output, slab_len_d, input_len) ==
    IF slab_len_d = 0 /\ input_len = 0
    THEN [output |-> output, len |-> 0]
    ELSE MergeLoop(slab_b, input_b, output, slab_len_d, input_len, 0, 0, 0)

\* BulkPutPipeline::run_merge_step: merge pass, then the whole merge buffer is
\* copied over the slab buffer, then merge_meta.len is read back.
run_merge_step(slab_b, slab_len_d, input_b, merge_b, dedup_len) ==
    LET m == MergeShader(slab_b, input_b, merge_b, slab_len_d, dedup_len)
    IN  [slab |-> m.output, merge |-> m.output, len |-> m.len]

\* The padding written behind the batch in the input buffer
Padding(n) == AsBuffer([i \in 1..n |-> [key |-> PAD_KEY, value |-> PAD_VALUE]])

\* An execute whose capacity check comes after the device work: the batch is
\* deduplicated and merged into the slab before the error is returned.
execute_checks_late(cap, slab_b, slab_len_h, slab_len_d, input_b, merge_b, merge_meta_d, entries_len) ==
    LET len        == entries_len
        padded_len == next_power_of_two(len)
        padded     == IF padded_len > len /\ padded_len <= cap
                      THEN WriteBuffer(input_b, len, Padding(padded_len - len))
                      ELSE input_b
        sorted     == IF len > 1 /\ padded_len <= cap
                      THEN run_sort_step(padded, padded_len) ELSE padded
        dedup      == run_dedup_step(sorted, len)
        merged     == run_merge_step(slab_b, slab_len_d, dedup.data, merge_b, dedup.len)
    IN  [ok |-> padded_len <= cap, len |-> IF padded_len <= cap THEN merged.len ELSE 0,
         requested |-> IF padded_len <= cap THEN 0 ELSE slab_len_h + padded_len,
         slab |-> merged.slab, merge |-> merged.merge, merge_meta |-> merged.len]

\* BulkPutPipeline::execute. input_b holds the batch in [0, entries_len).
\* ok = FALSE is Err(CapacityExceeded); nothing has been written then.
execute(cap, slab_b, slab_len_h, slab_len_d, input_b, merge_b, merge_meta_d, entries_len) ==
    LET len        == entries_len
        padded_len == next_power_of_two(len)
    IN  IF padded_len > cap
        THEN [ok |-> FALSE, len |-> 0, requested |-> slab_len_h + padded_len,
              slab |-> slab_b, merge |-> merge_b, merge_meta |-> merge_meta_d]
        ELSE LET padded == IF padded_len > len
                           THEN WriteBuffer(input_b, len, Padding(padded_len - len))
                           ELSE input_b
                 sorted == IF len > 1 THEN run_sort_step(padded, padded_len) ELSE padded
                 dedup  == run_dedup_step(sorted, len)
                 merged == run_merge_step(slab_b, slab_len_d, dedup.data, merge_b, dedup.len)
             IN  [ok |-> TRUE, len |-> merged.len, requested |-> 0,
                  slab |-> merged.slab, merge |-> merged.merge,
                  merge_meta |-> merged.len]

\* ---------------------------- baseline: BULK_GET_WGSL / BULK_DELETE_WGSL
\* The lower-bound binary search shared by the get and delete shaders
RECURSIVE LowerBoundLoop(_, _, _, _)
LowerBoundLoop(slab_b, key, lo, hi) ==
    IF lo < hi
    THEN LET mid == (lo + hi) \div 2
         IN  IF slab_b[mid + 1].key < key
             THEN LowerBoundLoop(slab_b, key, mid + 1, hi)
             ELSE LowerBoundLoop(slab_b, key, lo, mid)
    ELSE lo

\* A get shader that compares slab[lo].key without the test lo < slab_meta.len;
\* a load past the end of the buffer gives the zero entry
GetShaderUnguarded(slab_b, slab_len_d, key) ==
    LET lo == LowerBoundLoop(slab_b, key, 0, slab_len_d)
        e  == IF lo < Len(slab_b) THEN slab_b[lo + 1] ELSE ZeroEntry
    IN  IF e.key = key
        THEN [value |-> e.value, found |-> 1]
        ELSE [value |-> 0, found |-> 0]

\* BULK_GET_WGSL main for one key: the ResultEntry (value, found)
GetShader(slab_b, slab_len_d, key) ==
    LET lo == LowerBoundLoop(slab_b, key, 0, slab_len_d)
    IN  IF lo < slab_len_d /\ slab_b[lo + 1].key = key
        THEN [value |-> slab_b[lo + 1].value, found |-> 1]
        ELSE [value |-> 0, found |-> 0]

\* BulkGetPipeline::execute for one key: the host maps a miss and a tombstone
\* to None
Get(slab_b, slab_len_d, key) ==
    LET entry == GetShader(slab_b, slab_len_d, key)
    IN  IF entry.found = 0 \/ entry.value = TOMBSTONE_VALUE THEN NONE ELSE entry.value

\* BULK_DELETE_WGSL main for one key
DeleteShader(slab_b, slab_len_d, key) ==
    LET lo == LowerBoundLoop(slab_b, key, 0, slab_len_d)
    IN  IF lo < slab_len_d /\ slab_b[lo + 1].key = key
        THEN [slab_b EXCEPT ![lo + 1].value = TOMBSTONE_VALUE]
        ELSE slab_b

\* BulkDeletePipeline::execute: one thread per key. Threads only ever store the
\* tombstone into value fields and never move keys, so the threads' searches do
\* not depend on each other and the result is that of running them in turn.
RECURSIVE DeleteKeys(_, _, _, _)
DeleteKeys(slab_b, slab_len_d, keys, idx) ==
    IF idx > Len(keys) THEN slab_b
    ELSE DeleteKeys(DeleteShader(slab_b, slab_len_d, keys[idx]), slab_len_d, keys, idx + 1)

bulk_delete_execute(slab_b, slab_len_d, keys) ==
    IF keys = <<>> THEN slab_b ELSE DeleteKeys(slab_b, slab_len_d, keys, 1)

\* ------------------------------------------------- baseline: RANGE_WGSL
\* RANGE_WGSL lower_bound
lower_bound(slab_b, tgt, len) == LowerBoundLoop(slab_b, tgt, 0, len)

\* A range shader whose end bound is the first key above to_key
RangeShaderInclusive(slab_b, slab_len_d, from_key, to_key) ==
    IF slab_len_d = 0 THEN [start |-> 0, end |-> 0]
    ELSE [start |-> lower_bound(slab_b, from_key, slab_len_d),
          end   |-> lower_bound(slab_b, to_key + 1, slab_len_d)]

\* RANGE_WGSL main: the RangeMeta record (start, end)
RangeShader(slab_b, slab_len_d, from_key, to_key) ==
    IF slab_len_d = 0 THEN [start |-> 0, end |-> 0]
    ELSE [start |-> lower_bound(slab_b, from_key, slab_len_d),
          end   |-> lower_bound(slab_b, to_key, slab_len_d)]

\* RangeScanPipeline::execute: the copy-out of slab[start..end)
range_execute(slab_b, slab_len_h, slab_len_d, from_key, to_key) ==
    IF from_key >= to_key \/ slab_len_h = 0 THEN <<>>
    ELSE LET meta == RangeShader(slab_b, slab_len_d, from_key, to_key)
         IN  IF meta.end <= meta.start THEN <<>>
             ELSE SubSeq(slab_b, meta.start + 1, meta.end)

\* The host's filter of the copied entries
IsLive(entry) == entry.value # TOMBSTONE_VALUE

\* An update_len that stores the length it is given
update_len_unclamped(cap, new_len) ==
    [len |-> new_len, meta |-> [len |-> new_len, capacity |-> cap]]

\* An update_len that clamps the host length and mirrors the length it was given
update_len_stale_meta(cap, new_len) ==
    [len |-> Min(new_len, cap), meta |-> [len |-> new_len, capacity |-> cap]]

\* ------------------------------------------------- baseline: GpuArray
\* GpuArray::update_len: the host length and the SlabMeta record it mirrors
update_len(cap, new_len) ==
    LET l == Min(new_len, cap)
    IN  [len |-> l, meta |-> [len |-> l, capacity |-> cap]]

\* =========================================================================
\* lib.rs: the GpuSortedMap whose bulk_put is radix sort, flag-and-compact
\* dedup, device capacity check and chunked merge (BulkPutOp::execute).
\* =========================================================================
\* Bit `bit` of a key: (key >> bit) & 1
KeyBit(key, bit) == (key \div (2^bit)) % 2

\* RADIX_SORT_WGSL radix_flags: 1 for the keys whose bit is 0
radix_flags(input_entries, len, bit) ==
    AsBuffer([idx \in 1..len |-> IF KeyBit(input_entries[idx].key, bit) = 1 THEN 0 ELSE 1])

RECURSIVE SumBefore(_, _)
SumBefore(values, n) == IF n = 0 THEN 0 ELSE values[n] + SumBefore(values, n - 1)

\* dispatch_scan with SCAN_WGSL: the exclusive prefix sum of the first len values
dispatch_scan(values, len) == AsBuffer([idx \in 1..len |-> SumBefore(values, idx - 1)])

\* COUNT_WGSL total_count
total_count(flags, prefix, len) == IF len = 0 THEN 0 ELSE prefix[len] + flags[len]

\* RADIX_SORT_WGSL radix_scatter: thread idx stores its entry at pos (0-based)
ScatterPos(flags, prefix, zero_total, idx) ==
    IF flags[idx + 1] = 1 THEN prefix[idx + 1] ELSE zero_total + (idx - prefix[idx + 1])

radix_scatter(input_entries, output_entries, flags, prefix, zero_total, len) ==
    AsBuffer([p \in 1..Len(output_entries) |->
        IF \E idx \in 0..(len - 1) : ScatterPos(flags, prefix, zero_total, idx) = p - 1
        THEN input_entries[1 + CHOOSE idx \in 0..(len - 1) :
                                  ScatterPos(flags, prefix, zero_total, idx) = p - 1]
        ELSE output_entries[p]])

\* The loop `for bit in 0..32` of BulkPutOp::execute, src and dst swapping
RECURSIVE RadixPasses(_, _, _, _)
RadixPasses(src, dst, len, bit) ==
    IF bit >= WordBits THEN src
    ELSE LET flags  == radix_flags(src, len, bit)
             prefix == dispatch_scan(flags, len)
             zeros  == total_count(flags, prefix, len)
         IN  RadixPasses(radix_scatter(src, dst, flags, prefix, zeros, len), src, len,
                         bit + 1)

\* DEDUP_WGSL dedup_flags with the first entry of every run kept instead
dedup_flags_keep_first(input_entries, len) ==
    AsBuffer([idx \in 1..len |->
        IF idx = 1 THEN 1
        ELSE IF input_entries[idx].key # input_entries[idx - 1].key THEN 1 ELSE 0])

\* DEDUP_WGSL dedup_flags: keep the last entry of every run of equal keys
dedup_flags(input_entries, len) ==
    AsBuffer([idx \in 1..len |->
        IF idx >= len THEN 1
        ELSE IF input_entries[idx].key # input_entries[idx + 1].key THEN 1 ELSE 0])

\* DEDUP_WGSL dedup_compact
dedup_compact(input_entries, output_entries, flags, prefix, len) ==
    AsBuffer([p \in 1..Len(output_entries) |->
        IF \E idx \in 1..len : flags[idx] = 1 /\ prefix[idx] = p - 1
        THEN input_entries[CHOOSE idx \in 1..len : flags[idx] = 1 /\ prefix[idx] = p - 1]
        ELSE output_entries[p]])

\* META_WGSL capacity_check: error[0]
capacity_check(slab_meta_len, input_meta_len, cap) ==
    IF slab_meta_len + input_meta_len > cap THEN 1 ELSE 0

\* BULK_MERGE_WGSL merge_partition (lib.rs): the split (i, j) of output index k
RECURSIVE PartitionLoop(_, _, _, _, _, _, _, _)
PartitionLoop(slab_b, input_b, k, slab_len_d, input_len, i_low, i_high, i) ==
    LET j          == k - i
        move_left  == i > 0 /\ j < input_len /\ slab_b[i].key >= input_b[j + 1].key
        move_right == j > 0 /\ i < slab_len_d /\ input_b[j].key > slab_b[i + 1].key
    IN  IF move_left
        THEN PartitionLoop(slab_b, input_b, k, slab_len_d, input_len, i_low, i - 1,
                           (i_low + (i - 1)) \div 2)
        ELSE IF move_right
        THEN PartitionLoop(slab_b, input_b, k, slab_len_d, input_len, i + 1, i_high,
                           ((i + 1) + i_high + 1) \div 2)
        ELSE [x |-> i, y |-> j]

merge_partition(slab_b, input_b, k, slab_len_d, input_len) ==
    LET i_low  == IF k > input_len THEN k - input_len ELSE 0
        i_high == IF k > slab_len_d THEN slab_len_d ELSE k
    IN  PartitionLoop(slab_b, input_b, k, slab_len_d, input_len, i_low, i_high, i_high)

\* BULK_MERGE_WGSL main (lib.rs), the loop `while (k < k1)` of one chunk.
\* With equal keys the input entry goes first and the slab entry follows it.
RECURSIVE ChunkLoop(_, _, _, _, _, _, _, _)
ChunkLoop(slab_b, input_b, output, end, i, j, k, k1) ==
    IF k >= k1 THEN output
    ELSE IF i < end.x /\ j < end.y
    THEN LET a == slab_b[i + 1]
             b == input_b[j + 1]
         IN  IF a.key < b.key
             THEN ChunkLoop(slab_b, input_b, Store(output, k, a), end, i + 1, j, k + 1, k1)
             ELSE ChunkLoop(slab_b, input_b, Store(output, k, b), end, i, j + 1, k + 1, k1)
    ELSE IF i < end.x
    THEN ChunkLoop(slab_b, input_b, Store(output, k, slab_b[i + 1]), end, i + 1, j,
                   k + 1, k1)
    ELSE ChunkLoop(slab_b, input_b, Store(output, k, input_b[j + 1]), end, i, j + 1,
                   k + 1, k1)

\* The thread gid.x = chunk_index of the merge workgroup
MergeThread(slab_b, input_b, output, slab_len_d, input_len, chunk_index) ==
    LET total_len   == slab_len_d + input_len
        chunk_count == (total_len + ChunkSize - 1) \div ChunkSize
        k0          == chunk_index * ChunkSize
        k1          == Min(k0 + ChunkSize, total_len)
        start       == merge_partition(slab_b, input_b, k0, slab_len_d, input_len)
        end         == merge_partition(slab_b, input_b, k1, slab_len_d, input_len)
    IN  IF chunk_index >= chunk_count THEN output
        ELSE ChunkLoop(slab_b, input_b, output, end, start.x, start.y, k0, k1)

\* The threads write disjoint ranges [k0, k1) of the output and read only slab
\* and input, so the dispatch is the threads taken in turn.
RECURSIVE MergeThreads(_, _, _, _, _, _)
MergeThreads(slab_b, input_b, output, slab_len_d, input_len, chunk_index) ==
    IF chunk_index >= WORKGROUP_SIZE
       \/ chunk_index * ChunkSize >= slab_len_d + input_len
    THEN output
    ELSE LET written == MergeThread(slab_b, input_b, output, slab_len_d, input_len,
                                    chunk_index)
         IN  \* the thread's stores are done before the next thread's are taken
             IF Len(written) = Len(output)
             THEN MergeThreads(slab_b, input_b, written, slab_len_d, input_len,
                               chunk_index + 1)
             ELSE written

\* dispatch_workgroups(1, 1, 1) of the merge: the output buffer and merge_meta.len
bulk_merge(slab_b, input_b, output, slab_len_d, input_len) ==
    [output |-> MergeThreads(slab_b, input_b, output, slab_len_d, input_len, 0),
     len    |-> slab_len_d + input_len]

\* BulkPutOp::execute for a non-empty batch that fits the input buffer.
\* ok = FALSE is Err(CapacityExceeded { capacity, requested }).
BulkPutOp_execute(cap, slab_b, len_h, slab_meta_len, merge_b, entries) ==
    LET n        == Len(entries)
        input_b  == WriteBuffer(ZeroBuffer(cap), 0, entries)
        sorted   == RadixPasses(input_b, ZeroBuffer(cap), n, 0)
        flags    == dedup_flags(sorted, n)
        prefix   == dispatch_scan(flags, n)
        unique   == total_count(flags, prefix, n)
        compact  == dedup_compact(sorted, ZeroBuffer(cap), flags, prefix, n)
        error    == capacity_check(slab_meta_len, unique, cap)
        merged   == bulk_merge(slab_b, compact, merge_b, slab_meta_len, unique)
    IN  IF error # 0
        THEN [ok |-> FALSE, requested |-> len_h + unique, slab |-> slab_b,
              merge |-> merge_b, len |-> len_h, meta_len |-> slab_meta_len]
        ELSE [ok |-> TRUE, requested |-> 0, slab |-> merged.output,
              merge |-> merged.output, len |-> merged.len, meta_len |-> merged.len]

\* BULK_GET_WGSL main (lib.rs) for one key: a tombstone is reported not found
bulk_get_main(slab_b, slab_len_d, key) ==
    LET lo == LowerBoundLoop(slab_b, key, 0, slab_len_d)
    IN  IF lo < slab_len_d /\ slab_b[lo + 1].key = key
        THEN IF slab_b[lo + 1].value = TOMBSTONE_VALUE
             THEN [value |-> 0, found |-> 0]
             ELSE [value |-> slab_b[lo + 1].value, found |-> 1]
        ELSE [value |-> 0, found |-> 0]

\* BulkGetOp::execute for one key
BulkGetOp_execute(slab_b, slab_len_d, key) ==
    LET entry == bulk_get_main(slab_b, slab_len_d, key)
    IN  IF entry.found = 0 THEN NONE ELSE entry.value

\* BulkDeleteOp::new: the keys as entries that carry the tombstone
BulkDeleteOp_new(keys) == [i \in 1..Len(keys) |-> [key |-> keys[i], value |-> TOMBSTONE_VALUE]]

VARIABLES
    map_capacity,  \* GpuSortedMap.capacity
    map_len,       \* GpuSortedMap.len
    slab_buffer,   \* GpuSortedMap.slab_buffer
    meta_buffer,   \* GpuSortedMap.meta_buffer: the SlabMeta on the device
    merge_buffer,  \* GpuSortedMap.merge_buffer
    map_last       \* the last public call, what was passed and what it returned

lib_vars == <<map_capacity, map_len, slab_buffer, meta_buffer, merge_buffer, map_last>>

LibInit ==
    /\ map_capacity \in 1..MaxLibCapacity
    /\ map_len = 0
    /\ slab_buffer = ZeroBuffer(map_capacity)
    /\ meta_buffer = [len |-> 0, capacity |-> map_capacity]
    /\ merge_buffer = ZeroBuffer(map_capacity)
    /\ map_last = [op |-> "new", result |-> "Ok", tombstone |-> FALSE,
                   duplicate |-> FALSE]

LibIdle ==
    /\ map_capacity = 1
    /\ map_len = 0
    /\ slab_buffer = ZeroBuffer(1)
    /\ meta_buffer = [len |-> 0, capacity |-> 1]
    /\ merge_buffer = ZeroBuffer(1)
    /\ map_last = [op |-> "new", result |-> "Ok", tombstone |-> FALSE,
                   duplicate |-> FALSE]

\* The body shared by GpuSortedMap::bulk_put and, through BulkDeleteOp,
\* GpuSortedMap::bulk_delete. The input buffer holds map_capacity entries.
LibPutEntries(op, entries) ==
    /\ Len(entries) <= map_capacity
    /\ LET r == BulkPutOp_execute(map_capacity, slab_buffer, map_len, meta_buffer.len,
                                  merge_buffer, entries)
           called == [op |-> op, result |-> "Ok",
                      tombstone |-> \E i \in 1..Len(entries) :
                                        entries[i].value = TOMBSTONE_VALUE,
                      duplicate |-> \E i, j \in 1..Len(entries) :
                                        i < j /\ entries[i].key = entries[j].key]
       IN  IF entries = <<>>
           THEN /\ map_last' = called
                /\ UNCHANGED <<map_capacity, map_len, slab_buffer, meta_buffer,
                               merge_buffer>>
           ELSE IF ~r.ok
           THEN /\ map_last' = [called EXCEPT !.result = "CapacityExceeded"]
                /\ UNCHANGED <<map_capacity, map_len, slab_buffer, meta_buffer,
                               merge_buffer>>
           ELSE /\ map_last' = called
                /\ slab_buffer' = r.slab
                /\ merge_buffer' = r.merge
                /\ meta_buffer' = [meta_buffer EXCEPT !.len = r.meta_len]
                /\ map_len' = r.len
                /\ UNCHANGED map_capacity

\* GpuSortedMap::get (lib.rs)
map_get(k) == BulkGetOp_execute(slab_buffer, meta_buffer.len, k)

\* =========================================================================
\* The baseline map: host orchestration around the pipelines above.
\* The scratch input buffer is not kept between calls: every call rewrites the
\* region [0, padded_len) that its own stages read.
\* =========================================================================
VARIABLES
    capacity,    \* GpuArray.capacity of the slab
    slab,        \* the slab's device buffer, `capacity` entries
    slab_len,    \* GpuArray.len of the slab (host)
    slab_meta,   \* the SlabMeta record on the device
    merge,       \* the merge buffer, `capacity` entries
    merge_meta,  \* MergeMeta.len on the device
    live_count,  \* host count of non-tombstone entries, reported by len()
    last,        \* the last public call and its result
    hist         \* per key: the value of the latest successful write, or NONE

base_vars == <<capacity, slab, slab_len, slab_meta, merge, merge_meta, live_count,
               last, hist>>

HasTombstone(entries) == \E i \in 1..Len(entries) : entries[i].value = TOMBSTONE_VALUE

HasDuplicateKey(entries) ==
    \E i, j \in 1..Len(entries) : i < j /\ entries[i].key = entries[j].key

\* Batch keys that have no entry in the slab (the shader's `found` flag)
NetNewKeys(slab_b, slab_len_d, entries) ==
    {k \in KeySet(entries) : GetShader(slab_b, slab_len_d, k).found = 0}

\* Batch keys whose lookup is None before the call
NotVisibleKeys(slab_b, slab_len_d, ks) == {k \in ks : Get(slab_b, slab_len_d, k) = NONE}

\* Host validation of a bulk_put batch, in the order (a) tombstone values,
\* (b) duplicate keys, (d) capacity against the net-new count
Validate(entries) ==
    IF HasTombstone(entries) THEN "TombstoneReserved"
    ELSE IF HasDuplicateKey(entries) THEN "DuplicateKey"
    ELSE IF slab_len + Cardinality(NetNewKeys(slab, slab_meta.len, entries)) > capacity
    THEN "CapacityExceeded"
    ELSE "Ok"

BaseInit ==
    /\ capacity \in 1..MaxCapacity
    /\ slab = ZeroBuffer(capacity)
    /\ slab_len = 0
    /\ slab_meta = [len |-> 0, capacity |-> capacity]
    /\ merge = ZeroBuffer(capacity)
    /\ merge_meta = 0
    /\ live_count = 0
    /\ last = [op |-> "new", result |-> "Ok", requested |-> 0]
    /\ hist = [k \in Keys |-> NONE]

\* GpuSortedMap::bulk_put on the baseline pipeline
BulkPut(entries) ==
    LET requested == slab_len + Cardinality(NetNewKeys(slab, slab_meta.len, entries))
        verdict   == Validate(entries)
        input_b   == WriteBuffer(ZeroBuffer(capacity), 0, entries)
        r         == execute(capacity, slab, slab_len, slab_meta.len, input_b, merge,
                             merge_meta, Len(entries))
        upd       == update_len(capacity, r.len)
        shown     == Cardinality(NotVisibleKeys(slab, slab_meta.len, KeySet(entries)))
    IN  IF entries = <<>>
        THEN /\ last' = [op |-> "bulk_put", result |-> "Ok", requested |-> requested]
             /\ UNCHANGED <<capacity, slab, slab_len, slab_meta, merge, merge_meta,
                            live_count, hist>>
        ELSE IF verdict # "Ok"
        THEN /\ last' = [op |-> "bulk_put", result |-> verdict, requested |-> requested]
             /\ UNCHANGED <<capacity, slab, slab_len, slab_meta, merge, merge_meta,
                            live_count, hist>>
        ELSE IF ~r.ok
        THEN /\ last' = [op |-> "bulk_put", result |-> "CapacityExceeded",
                         requested |-> requested]
             /\ slab' = r.slab
             /\ merge' = r.merge
             /\ merge_meta' = r.merge_meta
             /\ UNCHANGED <<capacity, slab_len, slab_meta, live_count, hist>>
        ELSE /\ last' = [op |-> "bulk_put", result |-> "Ok", requested |-> requested]
             /\ slab' = r.slab
             /\ merge' = r.merge
             /\ merge_meta' = r.merge_meta
             /\ slab_len' = upd.len
             /\ slab_meta' = upd.meta
             /\ live_count' = live_count + shown
             /\ hist' = [k \in Keys |->
                            IF k \in KeySet(entries)
                            THEN (CHOOSE e \in Range(entries) : e.key = k).value
                            ELSE hist[k]]
             /\ UNCHANGED capacity

\* GpuSortedMap::bulk_delete on the baseline pipeline
BulkDelete(keys) ==
    LET unique  == {keys[i] : i \in 1..Len(keys)}
        present == unique \ NotVisibleKeys(slab, slab_meta.len, unique)
    IN  /\ slab' = bulk_delete_execute(slab, slab_meta.len, keys)
        /\ live_count' = live_count - Cardinality(present)
        /\ hist' = [k \in Keys |-> IF k \in unique THEN NONE ELSE hist[k]]
        /\ last' = [op |-> "bulk_delete", result |-> "Ok", requested |-> slab_len]
        /\ UNCHANGED <<capacity, slab_len, slab_meta, merge, merge_meta>>

\* =========================================================================
\* BulkPutPipeline::execute on its own: one call on a slab and a batch that the
\* host has validated and written to the input buffer.
\* =========================================================================
VARIABLES
    p_capacity,  \* capacity of slab, input and merge buffers
    p_before,    \* the slab buffer when execute is called
    p_len,       \* slab.len, on host and device
    p_entries,   \* the batch the host wrote to the input buffer
    p_slab,      \* the slab buffer
    p_result     \* pending, or what execute returned

pipe_vars == <<p_capacity, p_before, p_len, p_entries, p_slab, p_result>>

StoredValues == {1, 2, TOMBSTONE_VALUE}

\* Slab buffers that hold `len` entries with strictly ascending keys
SortedSlabs(cap, len) ==
    {b \in [1..cap -> [key : Keys, value : StoredValues] \cup {ZeroEntry}] :
        /\ \A i \in 1..cap : i > len <=> b[i] = ZeroEntry
        /\ \A i \in 1..cap : (i < len) => b[i].key < b[i + 1].key}

\* Batches that pass the host's validation for the given slab
ValidBatches(cap, slab_b, len) ==
    {b \in Batches :
        /\ ~HasTombstone(b)
        /\ ~HasDuplicateKey(b)
        /\ len + Cardinality(NetNewKeys(slab_b, len, b)) <= cap}

PipeInit ==
    /\ p_capacity \in 1..MaxCapacity
    /\ p_len \in 0..Min(p_capacity, Cardinality(Keys))
    /\ p_before \in SortedSlabs(p_capacity, p_len)
    /\ p_entries \in ValidBatches(p_capacity, p_before, p_len)
    /\ p_slab = p_before
    /\ p_result = [state |-> "pending", len |-> 0]

PipeIdle ==
    /\ p_capacity = 1
    /\ p_len = 0
    /\ p_before = ZeroBuffer(1)
    /\ p_entries = <<>>
    /\ p_slab = ZeroBuffer(1)
    /\ p_result = [state |-> "pending", len |-> 0]

BaseIdle ==
    /\ capacity = 1
    /\ slab = ZeroBuffer(1)
    /\ slab_len = 0
    /\ slab_meta = [len |-> 0, capacity |-> 1]
    /\ merge = ZeroBuffer(1)
    /\ merge_meta = 0
    /\ live_count = 0
    /\ last = [op |-> "new", result |-> "Ok", requested |-> 0]
    /\ hist = [k \in Keys |-> NONE]

\* =========================================================================
\* GpuArray on its own: the slab container and its two host mutators.
\* =========================================================================
VARIABLES
    array_capacity,  \* GpuArray.capacity
    array_len,       \* GpuArray.len
    array_meta,      \* the SlabMeta in GpuArray.meta_buffer
    array_buffer,    \* the contents of GpuArray.buffer
    array_new,       \* the capacity that was passed to GpuArray::new
    array_last       \* the last call and its argument

array_vars == <<array_capacity, array_len, array_meta, array_buffer, array_new,
                array_last>>

\* Lengths passed to update_len, some of them larger than any capacity
Lengths == 0..(MaxCapacity + 2)

\* GpuArray::new
ArrayInit ==
    /\ array_new \in 1..MaxCapacity
    /\ array_capacity = array_new
    /\ array_len = 0
    /\ array_meta = [len |-> 0, capacity |-> array_new]
    /\ array_buffer = [i \in 1..array_new |-> 0]
    /\ array_last = [op |-> "new", arg |-> array_new]

ArrayIdle ==
    /\ array_new = 1
    /\ array_capacity = 1
    /\ array_len = 0
    /\ array_meta = [len |-> 0, capacity |-> 1]
    /\ array_buffer = <<0>>
    /\ array_last = [op |-> "new", arg |-> 1]

\* ---- BulkDeletePipeline, one thread per key (SpecDelete) ----

VARIABLES d_capacity, d_before, d_len, d_keys, d_slab, d_pc, d_lo

del_vars == <<d_capacity, d_before, d_len, d_keys, d_slab, d_pc, d_lo>>

\* The threads that pass `idx >= keys_meta.len`; thread t handles keys[t - 1]
DeleteThreads == 1..Len(d_keys)

DeleteMatchesAnyKey(slab_b, slab_len_d, key, lo) == lo < slab_len_d

\* BULK_DELETE_WGSL main: the test guarding the store
DeleteMatches(slab_b, slab_len_d, key, lo) ==
    lo < slab_len_d /\ slab_b[lo + 1].key = key

StoreTombstoneEntry(slab_b, lo) ==
    [slab_b EXCEPT ![lo + 1] = [key |-> TOMBSTONE_VALUE, value |-> TOMBSTONE_VALUE]]

\* BULK_DELETE_WGSL main: slab[lo].value = 0xffffffffu
StoreTombstone(slab_b, lo) == [slab_b EXCEPT ![lo + 1].value = TOMBSTONE_VALUE]

\* The slab before BulkDeletePipeline::execute and the keys passed to it
DelInit ==
    /\ d_capacity \in 1..MaxCapacity
    /\ d_len \in 0..Min(d_capacity, Cardinality(Keys))
    /\ d_before \in SortedSlabs(d_capacity, d_len)
    /\ d_keys \in KeyBatches
    /\ d_slab = d_before
    /\ d_pc = [t \in DeleteThreads |-> "search"]
    /\ d_lo = [t \in DeleteThreads |-> 0]

DelIdle ==
    /\ d_capacity = 1
    /\ d_len = 0
    /\ d_before = ZeroBuffer(1)
    /\ d_keys = <<>>
    /\ d_slab = ZeroBuffer(1)
    /\ d_pc = <<>>
    /\ d_lo = <<>>

\* Thread t runs the binary search. It reads key fields only, and no thread
\* stores to a key field.
DelSearch(t) ==
    /\ d_pc[t] = "search"
    /\ d_lo' = [d_lo EXCEPT ![t] = LowerBoundLoop(d_slab, d_keys[t], 0, d_len)]
    /\ d_pc' = [d_pc EXCEPT ![t] = "store"]
    /\ UNCHANGED <<d_capacity, d_before, d_len, d_keys, d_slab>>

\* Thread t runs the test and the store that follow the search
DelStore(t) ==
    /\ d_pc[t] = "store"
    /\ d_slab' = IF DeleteMatches(d_slab, d_len, d_keys[t], d_lo[t])
                 THEN StoreTombstone(d_slab, d_lo[t])
                 ELSE d_slab
    /\ d_pc' = [d_pc EXCEPT ![t] = "done"]
    /\ UNCHANGED <<d_capacity, d_before, d_len, d_keys, d_lo>>

\* ---- put, delete, put of one key on the lib.rs map (SpecLibSeq) ----

\* seq_stage counts the calls made so far of a sequence of puts and deletes of
\* one key, seq_key is the key and seq_value lists the values put so far
VARIABLES seq_stage, seq_key, seq_value

seq_vars == <<seq_stage, seq_key, seq_value>>

LiveValues == PutValues \ {TOMBSTONE_VALUE}

SeqIdle ==
    /\ seq_stage = 0
    /\ seq_key = 0
    /\ seq_value = <<>>

\* Any other call made before the sequence starts
LibSeqOther ==
    /\ seq_stage \in {0, 3}
    /\ \/ \E entries \in LibBatches : LibPutEntries("bulk_put", entries)
       \/ \E keys \in LibKeyBatches :
             LibPutEntries("bulk_delete", BulkDeleteOp_new(keys))
    /\ seq_stage' = 0
    /\ seq_key' = 0
    /\ seq_value' = <<>>

\* GpuSortedMap::put(k, v1) in a map that has room for one more entry
LibSeqPut ==
    /\ seq_stage \in {0, 3}
    /\ map_len < map_capacity
    /\ \E k \in Keys, v1 \in LiveValues :
          /\ LibPutEntries("bulk_put", <<[key |-> k, value |-> v1]>>)
          /\ seq_key' = k
          /\ seq_value' = <<v1>>
    /\ seq_stage' = 1

\* GpuSortedMap::delete(k)
LibSeqDelete ==
    /\ seq_stage = 1
    /\ LibPutEntries("bulk_delete", BulkDeleteOp_new(<<seq_key>>))
    /\ seq_stage' = 2
    /\ UNCHANGED <<seq_key, seq_value>>

\* GpuSortedMap::put(k, v2)
LibSeqPutAgain ==
    /\ seq_stage = 2
    /\ \E v2 \in LiveValues :
          /\ LibPutEntries("bulk_put", <<[key |-> seq_key, value |-> v2]>>)
          /\ seq_value' = Append(seq_value, v2)
    /\ seq_stage' = 3
    /\ UNCHANGED seq_key

\* ---- the calls of lib.rs, one host step at a time (SpecLibSteps) ----

\* step_pc is the host's position in the call, step_entries the batch of the
\* call in progress, step_dev what its first submission left in the device
\* buffers, step_log the queue writes and submissions the call has made so far.
\* step_last describes the last call started: the operation, whether its input
\* slice was empty, its outcome, the values a bulk_get returned, and the log as
\* it stood when the outcome was decided.
VARIABLES step_pc, step_entries, step_dev, step_log, step_last

step_vars == <<step_pc, step_entries, step_dev, step_log, step_last>>

NoDeviceResult(cap) == [compact |-> ZeroBuffer(cap), unique |-> 0, error |-> 0]

NoCall ==
    [op |-> "none", empty |-> FALSE, result |-> "none", values |-> <<>>,
     work_before |-> <<>>]

Called(op, input) ==
    [op |-> op, empty |-> input = <<>>, result |-> "pending", values |-> <<>>,
     work_before |-> <<>>]

StepIdle ==
    /\ step_pc = "idle"
    /\ step_entries = <<>>
    /\ step_dev = NoDeviceResult(1)
    /\ step_log = <<>>
    /\ step_last = NoCall

StepInit ==
    /\ step_pc = "idle"
    /\ step_entries = <<>>
    /\ step_dev = NoDeviceResult(map_capacity)
    /\ step_log = <<>>
    /\ step_last = NoCall

is_empty_never(slice) == FALSE

\* slice.is_empty()
is_empty(slice) == slice = <<>>

\* The entry of GpuSortedMap::bulk_put and, through BulkDeleteOp, of
\* GpuSortedMap::bulk_delete: an empty slice returns Ok(()) at once; otherwise
\* BulkPutOp::execute writes the batch and its length to the input buffer and
\* to input_meta. The input buffer holds map_capacity entries.
StepEnter(op, input, entries) ==
    /\ step_pc = "idle"
    /\ Len(entries) <= map_capacity
    /\ IF is_empty(input)
       THEN /\ step_last' = [Called(op, input) EXCEPT !.result = "Ok"]
            /\ UNCHANGED <<step_pc, step_entries, step_log>>
       ELSE /\ step_last' = Called(op, input)
            /\ step_entries' = entries
            /\ step_log' = <<"write_buffer", "write_buffer">>
            /\ step_pc' = "encode"
    /\ UNCHANGED <<step_dev, lib_vars>>

\* GpuSortedMap::bulk_put and put
StepBulkPut == \E entries \in LibBatches : StepEnter("bulk_put", entries, entries)

\* GpuSortedMap::bulk_delete and delete
StepBulkDelete ==
    \E keys \in LibKeyBatches : StepEnter("bulk_delete", keys, BulkDeleteOp_new(keys))

\* GpuSortedMap::bulk_get and get: an empty slice returns an empty vector at
\* once; otherwise BulkGetOp submits the lookup pass and reads the results back
StepBulkGet ==
    /\ step_pc = "idle"
    /\ \E keys \in LibKeyBatches :
          IF is_empty(keys)
          THEN step_last' = [Called("bulk_get", keys) EXCEPT !.result = "Ok"]
          ELSE step_last' =
                  [Called("bulk_get", keys) EXCEPT
                      !.result = "Ok",
                      !.values = [i \in 1..Len(keys) |-> map_get(keys[i])],
                      !.work_before = <<"submit">>]
    /\ UNCHANGED <<step_pc, step_entries, step_dev, step_log, lib_vars>>

\* The radix sort, dedup and capacity-check passes are recorded in one encoder
\* and submitted
StepSubmitSort ==
    /\ step_pc = "encode"
    /\ LET cap     == map_capacity
           n       == Len(step_entries)
           input_b == WriteBuffer(ZeroBuffer(cap), 0, step_entries)
           sorted  == RadixPasses(input_b, ZeroBuffer(cap), n, 0)
           flags   == dedup_flags(sorted, n)
           prefix  == dispatch_scan(flags, n)
           unique  == total_count(flags, prefix, n)
       IN  step_dev' = [compact |-> dedup_compact(sorted, ZeroBuffer(cap), flags,
                                                   prefix, n),
                        unique  |-> unique,
                        error   |-> capacity_check(meta_buffer.len, unique, cap)]
    /\ step_log' = Append(step_log, "submit")
    /\ step_pc' = "read_error"
    /\ UNCHANGED <<step_entries, step_last, lib_vars>>

\* The error word is read back; on an error the unique count is read back
\* with a second submission and Err(CapacityExceeded) is returned
StepReadError ==
    /\ step_pc = "read_error"
    /\ IF step_dev.error # 0
       THEN /\ step_last' = [step_last EXCEPT !.result = "CapacityExceeded",
                                              !.work_before = step_log]
            /\ step_log' = <<>>
            /\ step_pc' = "idle"
            /\ step_entries' = <<>>
            /\ step_dev' = NoDeviceResult(map_capacity)
       ELSE /\ step_pc' = "merge"
            /\ UNCHANGED <<step_log, step_last, step_entries, step_dev>>
    /\ UNCHANGED lib_vars

\* The merge passes, the copy of the merge buffer over the slab and the slab
\* metadata pass are submitted, and map.len becomes the merged length
StepMerge ==
    /\ step_pc = "merge"
    /\ LET merged == bulk_merge(slab_buffer, step_dev.compact, merge_buffer,
                                meta_buffer.len, step_dev.unique)
       IN  /\ slab_buffer' = merged.output
           /\ merge_buffer' = merged.output
           /\ meta_buffer' = [meta_buffer EXCEPT !.len = merged.len]
           /\ map_len' = merged.len
    /\ step_last' = [step_last EXCEPT !.result = "Ok",
                                      !.work_before = Append(step_log, "submit")]
    /\ step_log' = <<>>
    /\ step_pc' = "idle"
    /\ step_entries' = <<>>
    /\ step_dev' = NoDeviceResult(map_capacity)
    /\ UNCHANGED <<map_capacity, map_last>>

\* ---- host and device queue during one call and a following read (SpecQueue) ----

\* q_call is the mutating call and the map it is made on, q_host the host's
\* position in it, q_queue the commands handed to the device queue and not yet
\* run, q_dev the device buffers, q_log the commands the device has run, and
\* q_obs what the read that follows the call saw.
VARIABLES q_call, q_host, q_queue, q_dev, q_log, q_obs

queue_vars == <<q_call, q_host, q_queue, q_dev, q_log, q_obs>>

Command(name, arg) == [cmd |-> name, arg |-> arg]

ReadbackUnblocked(queue) == TRUE

\* readback_vec: device.poll(Maintain::Wait) returns when the device has run
\* everything submitted so far
ReadbackReady(queue) == queue = <<>>

QueueCalls(cap, slab_b, len) ==
    {[op |-> "bulk_put", entries |-> b, keys |-> <<>>, capacity |-> cap,
      slab |-> slab_b, len |-> len] : b \in ValidBatches(cap, slab_b, len) \ {<<>>}}
    \cup
    {[op |-> "bulk_delete", entries |-> <<>>, keys |-> ks, capacity |-> cap,
      slab |-> slab_b, len |-> len] : ks \in KeyBatches \ {<<>>}}

QueueInit ==
    /\ \E cap \in 1..MaxCapacity :
          \E len \in 0..Min(cap, Cardinality(Keys)) :
             \E slab_b \in SortedSlabs(cap, len) :
                /\ q_call \in QueueCalls(cap, slab_b, len)
                /\ q_dev = [slab |-> AsBuffer(slab_b), meta_len |-> len,
                            input |-> ZeroBuffer(cap), merge |-> ZeroBuffer(cap),
                            merge_meta |-> 0]
                /\ q_host = [pc |-> "start", len |-> len, dedup_len |-> 0,
                             result |-> "pending"]
    /\ q_queue = <<>>
    /\ q_log = <<>>
    /\ q_obs = <<>>

QueueIdle ==
    /\ q_call = [op |-> "bulk_delete", entries |-> <<>>, keys |-> <<>>,
                 capacity |-> 1, slab |-> ZeroBuffer(1), len |-> 0]
    /\ q_dev = [slab |-> ZeroBuffer(1), meta_len |-> 0, input |-> ZeroBuffer(1),
                merge |-> ZeroBuffer(1), merge_meta |-> 0]
    /\ q_host = [pc |-> "done", len |-> 0, dedup_len |-> 0, result |-> "Ok"]
    /\ q_queue = <<>>
    /\ q_log = <<>>
    /\ q_obs = <<>>

\* What a bulk_get of every key and a range over all keys read from the device
Observation(slab_b, meta_len, host_len) ==
    [len   |-> meta_len,
     gets  |-> [k \in Keys |-> Get(slab_b, meta_len, k)],
     range |-> range_execute(slab_b, host_len, meta_len, 0, U32_MAX)]

\* The device runs the command at the head of the queue
RunCommand(dev, c) ==
    CASE c.cmd = "write_input" ->
            [dev EXCEPT !.input = WriteBuffer(dev.input, 0, q_call.entries)]
      [] c.cmd = "write_pad" ->
            [dev EXCEPT !.input = WriteBuffer(dev.input, Len(q_call.entries),
                                              Padding(c.arg))]
      [] c.cmd = "sort" ->
            [dev EXCEPT !.input = run_sort_step(dev.input, c.arg)]
      [] c.cmd = "dedup" ->
            LET r == run_dedup_step(dev.input, c.arg)
            IN  [dev EXCEPT !.input = r.data, !.merge_meta = r.len]
      [] c.cmd = "merge" ->
            LET m == MergeShader(dev.slab, dev.input, dev.merge, dev.meta_len, c.arg)
            IN  [dev EXCEPT !.merge = m.output, !.merge_meta = m.len]
      [] c.cmd = "copy" ->
            [dev EXCEPT !.slab = dev.merge]
      [] c.cmd = "write_len" ->
            [dev EXCEPT !.meta_len = c.arg]
      [] c.cmd = "delete" ->
            [dev EXCEPT !.slab = bulk_delete_execute(dev.slab, dev.meta_len,
                                                     q_call.keys)]
      [] OTHER -> dev

DeviceStep ==
    /\ q_queue # <<>>
    /\ q_dev' = RunCommand(q_dev, Head(q_queue))
    /\ q_obs' = IF Head(q_queue).cmd = "observe"
                THEN <<Observation(q_dev.slab, q_dev.meta_len, Head(q_queue).arg)>>
                ELSE q_obs
    /\ q_log' = Append(q_log, Head(q_queue).cmd)
    /\ q_queue' = Tail(q_queue)
    /\ UNCHANGED <<q_call, q_host>>

\* Host step (e) of bulk_put: the batch is written to the input buffer
HostWriteInput ==
    /\ q_host.pc = "start"
    /\ q_call.op = "bulk_put"
    /\ q_queue' = Append(q_queue, Command("write_input", 0))
    /\ q_host' = [q_host EXCEPT !.pc = "execute"]
    /\ UNCHANGED <<q_call, q_dev, q_log, q_obs>>

\* BulkPutPipeline::execute up to the submission of the dedup pass
HostExecute ==
    /\ q_host.pc = "execute"
    /\ LET len        == Len(q_call.entries)
           padded_len == next_power_of_two(len)
           pad        == IF padded_len > len
                         THEN <<Command("write_pad", padded_len - len)>> ELSE <<>>
           sort       == IF len > 1 THEN <<Command("sort", padded_len)>> ELSE <<>>
       IN  IF padded_len > q_call.capacity
           THEN /\ q_host' = [q_host EXCEPT !.pc = "returned",
                                            !.result = "CapacityExceeded"]
                /\ UNCHANGED q_queue
           ELSE /\ q_host' = [q_host EXCEPT !.pc = "dedup_readback"]
                /\ q_queue' = q_queue \o pad \o sort \o <<Command("dedup", len)>>
    /\ UNCHANGED <<q_call, q_dev, q_log, q_obs>>

\* run_dedup_step reads dedup_len back; run_merge_step submits the merge pass
\* and the copy of the merge buffer over the slab
HostDedupReadback ==
    /\ q_host.pc = "dedup_readback"
    /\ ReadbackReady(q_queue)
    /\ q_host' = [q_host EXCEPT !.pc = "merge_readback",
                                !.dedup_len = q_dev.merge_meta]
    /\ q_queue' = q_queue \o <<Command("merge", q_dev.merge_meta), Command("copy", 0)>>
    /\ UNCHANGED <<q_call, q_dev, q_log, q_obs>>

\* run_merge_step reads merge_len back, execute returns Ok(merge_len) and the
\* host calls GpuArray::update_len(merge_len)
HostMergeReadback ==
    /\ q_host.pc = "merge_readback"
    /\ ReadbackReady(q_queue)
    /\ LET upd == update_len(q_call.capacity, q_dev.merge_meta)
       IN  /\ q_host' = [q_host EXCEPT !.pc = "returned", !.len = upd.len,
                                       !.result = "Ok"]
           /\ q_queue' = Append(q_queue, Command("write_len", upd.meta.len))
    /\ UNCHANGED <<q_call, q_dev, q_log, q_obs>>

\* BulkDeletePipeline::execute: the pass is submitted and the call returns
HostDelete ==
    /\ q_host.pc = "start"
    /\ q_call.op = "bulk_delete"
    /\ q_queue' = Append(q_queue, Command("delete", 0))
    /\ q_host' = [q_host EXCEPT !.pc = "returned", !.result = "Ok"]
    /\ UNCHANGED <<q_call, q_dev, q_log, q_obs>>

\* A bulk_get or range issued after the call has returned
HostObserve ==
    /\ q_host.pc = "returned"
    /\ q_queue' = Append(q_queue, Command("observe", q_host.len))
    /\ q_host' = [q_host EXCEPT !.pc = "observe_readback"]
    /\ UNCHANGED <<q_call, q_dev, q_log, q_obs>>

HostObserveReadback ==
    /\ q_host.pc = "observe_readback"
    /\ ReadbackReady(q_queue)
    /\ q_host' = [q_host EXCEPT !.pc = "done"]
    /\ UNCHANGED <<q_call, q_queue, q_dev, q_log, q_obs>>

\* ---- two batches put in both orders into empty maps (SpecUnion) ----

\* u_ab is the map that receives u_b1 then u_b2, u_ba the map that receives
\* u_b2 then u_b1; `done` counts the calls made on the map and `ok` tells
\* whether all of them returned Ok
VARIABLES u_capacity, u_b1, u_b2, u_ab, u_ba

union_vars == <<u_capacity, u_b1, u_b2, u_ab, u_ba>>

EmptyMap(cap) ==
    [slab |-> ZeroBuffer(cap), len |-> 0, meta |-> [len |-> 0, capacity |-> cap],
     merge |-> ZeroBuffer(cap), merge_meta |-> 0, done |-> 0, ok |-> TRUE]

\* Pairs of batches the host's validation accepts: no tombstone value, no key
\* twice, disjoint key sets, and room for all of them
UnionInit ==
    /\ u_capacity \in 1..MaxCapacity
    /\ u_b1 \in Batches
    /\ u_b2 \in Batches
    /\ ~HasTombstone(u_b1) /\ ~HasDuplicateKey(u_b1)
    /\ ~HasTombstone(u_b2) /\ ~HasDuplicateKey(u_b2)
    /\ KeySet(u_b1) \cap KeySet(u_b2) = {}
    /\ Len(u_b1) + Len(u_b2) <= u_capacity
    /\ u_ab = EmptyMap(u_capacity)
    /\ u_ba = EmptyMap(u_capacity)

UnionIdle ==
    /\ u_capacity = 1
    /\ u_b1 = <<>>
    /\ u_b2 = <<>>
    /\ u_ab = EmptyMap(1)
    /\ u_ba = EmptyMap(1)

\* bulk_put of a batch that passed validation: an empty batch returns Ok at
\* once, any other goes through BulkPutPipeline::execute and, when that
\* returns Ok(len), GpuArray::update_len(len)
PutValid(cap, m, entries) ==
    LET input_b == WriteBuffer(ZeroBuffer(cap), 0, entries)
        r       == execute(cap, m.slab, m.len, m.meta.len, input_b, m.merge,
                           m.merge_meta, Len(entries))
        upd     == update_len(cap, r.len)
    IN  IF entries = <<>>
        THEN [m EXCEPT !.done = m.done + 1]
        ELSE IF ~r.ok
        THEN [m EXCEPT !.slab = r.slab, !.merge = r.merge,
                       !.merge_meta = r.merge_meta, !.done = m.done + 1,
                       !.ok = FALSE]
        ELSE [m EXCEPT !.slab = r.slab, !.merge = r.merge,
                       !.merge_meta = r.merge_meta, !.len = upd.len,
                       !.meta = upd.meta, !.done = m.done + 1]

\* The next bulk_put on the map that receives u_b1 first
UnionPutFirstOrder ==
    /\ u_ab.done < 2
    /\ u_ab' = PutValid(u_capacity, u_ab, IF u_ab.done = 0 THEN u_b1 ELSE u_b2)
    /\ UNCHANGED <<u_capacity, u_b1, u_b2, u_ba>>

\* The next bulk_put on the map that receives u_b2 first
UnionPutSecondOrder ==
    /\ u_ba.done < 2
    /\ u_ba' = PutValid(u_capacity, u_ba, IF u_ba.done = 0 THEN u_b2 ELSE u_b1)
    /\ UNCHANGED <<u_capacity, u_b1, u_b2, u_ab>>

\* ---- put, put of one key on the baseline map (SpecPutTwice) ----

\* Any other call made before the sequence starts
BaseSeqOther ==
    /\ seq_stage = 0
    /\ \/ \E entries \in Batches : BulkPut(entries)
       \/ \E keys \in KeyBatches : BulkDelete(keys)
    /\ UNCHANGED seq_vars

\* GpuSortedMap::put(k, v1)
BaseSeqPut ==
    /\ seq_stage = 0
    /\ \E k \in Keys, v1 \in LiveValues :
          /\ BulkPut(<<[key |-> k, value |-> v1]>>)
          /\ seq_key' = k
          /\ seq_value' = <<v1>>
    /\ seq_stage' = 1

\* GpuSortedMap::put(k, v2), v2 = v1 included
BaseSeqPutAgain ==
    /\ seq_stage = 1
    /\ \E v2 \in LiveValues :
          /\ BulkPut(<<[key |-> seq_key, value |-> v2]>>)
          /\ seq_value' = Append(seq_value, v2)
    /\ seq_stage' = 2
    /\ UNCHANGED seq_key

\* ---- Single kernels: one stage of a pipeline applied to one input ----
VARIABLES kern_call, kern_out
\* One bitonic pass thread by thread: the input buffer, the pass parameters,
\* every thread's position and registers, and who touched which element
VARIABLES pass_input, pass_len, pass_data, pass_k, pass_j, pass_pc, pass_regs,
          pass_access
pass_vars == <<pass_input, pass_len, pass_data, pass_k, pass_j, pass_pc, pass_regs,
               pass_access>>
kernel_vars == <<kern_call, kern_out, pass_vars>>

NoKernel == [name |-> "none"]
PassIdle ==
    /\ pass_input = <<>> /\ pass_len = 0 /\ pass_data = <<>>
    /\ pass_k = 0 /\ pass_j = 0
    /\ pass_pc = <<>> /\ pass_regs = <<>> /\ pass_access = <<>>
KernelIdle == kern_call = NoKernel /\ kern_out = NoKernel /\ PassIdle
KernelPending == [name |-> "pending"]

\* The batches whose sort and dedup are looked at on their own
SortBatches == UNION {[1..n -> Entries] : n \in 1..MaxBatch}

\* BulkPutOp::execute from write_buffer(input_buffer) to the dedup count:
\* the radix passes, dedup_flags, the scan, total_count and dedup_compact
RadixInit ==
    /\ kern_call \in {[name |-> "radix_sort_dedup", capacity |-> MaxCapacity,
                       entries |-> e] : e \in SortBatches}
    /\ kern_out = KernelPending
    /\ PassIdle

RadixSortDedup ==
    /\ kern_call.name = "radix_sort_dedup"
    /\ kern_out = KernelPending
    /\ LET cap     == kern_call.capacity
           n       == Len(kern_call.entries)
           input_b == WriteBuffer(ZeroBuffer(cap), 0, kern_call.entries)
           sorted  == RadixPasses(input_b, ZeroBuffer(cap), n, 0)
           flags   == dedup_flags(sorted, n)
           prefix  == dispatch_scan(flags, n)
       IN  kern_out' = [name    |-> "radix_sort_dedup",
                        sorted  |-> sorted,
                        compact |-> dedup_compact(sorted, ZeroBuffer(cap), flags,
                                                  prefix, n),
                        unique  |-> total_count(flags, prefix, n)]
    /\ UNCHANGED <<kern_call, pass_vars>>

\* ---- The chunked merge of lib.rs on its own ----
\* Entries with the sentinel that marks an output index no thread has stored to
Unwritten == [key |-> NONE, value |-> NONE]

\* Deduped batches: strictly ascending keys
DedupedInputs ==
    {b \in Batches : \A i \in 1..(Len(b) - 1) : b[i].key < b[i + 1].key}

\* Slabs as the lib.rs merge leaves them: ascending keys, equal keys possible
MergedSlabs ==
    {b \in {<<>>} \cup UNION {[1..n -> [key : Keys, value : StoredValues]] : n \in 1..MaxBatch} :
        \A i \in 1..(Len(b) - 1) : b[i].key <= b[i + 1].key}

\* Slab lengths around what the 64 threads of the one workgroup cover
LongSlabLens == (WORKGROUP_SIZE * ChunkSize - 1)..(WORKGROUP_SIZE * ChunkSize + 1)
LongSlabs == {AsBuffer([i \in 1..n |-> [key |-> 1, value |-> v]]) :
                 n \in LongSlabLens, v \in {1, 2}}

MergeCall(cap, slab_e, input_e) ==
    [name |-> "bulk_merge", capacity |-> cap, slab |-> slab_e, input |-> input_e]

MergeInit ==
    /\ kern_call \in
          {MergeCall(MaxCapacity, s, b) : s \in MergedSlabs, b \in DedupedInputs}
          \cup {MergeCall(WORKGROUP_SIZE * ChunkSize + 2, s, b) :
                   s \in LongSlabs, b \in {d \in DedupedInputs : Len(d) <= 1}}
    /\ Len(kern_call.slab) + Len(kern_call.input) <= kern_call.capacity
    /\ kern_out = KernelPending
    /\ PassIdle

\* The threads whose stores hit index k of the output
WritersOf(slab_b, input_b, cap, slab_len_d, input_len, k) ==
    {t \in 0..(WORKGROUP_SIZE - 1) :
        MergeThread(slab_b, input_b, AsBuffer([i \in 1..cap |-> Unwritten]),
                    slab_len_d, input_len, t)[k + 1] # Unwritten}

\* dispatch_workgroups(1, 1, 1) of BULK_MERGE_WGSL main
BulkMerge ==
    /\ kern_call.name = "bulk_merge"
    /\ kern_out = KernelPending
    /\ LET cap     == kern_call.capacity
           slab_b  == WriteBuffer(ZeroBuffer(cap), 0, kern_call.slab)
           input_b == WriteBuffer(ZeroBuffer(cap), 0, kern_call.input)
           n       == Len(kern_call.slab)
           m       == Len(kern_call.input)
           r       == bulk_merge(slab_b, input_b, ZeroBuffer(cap), n, m)
       IN  kern_out' = [name    |-> "bulk_merge",
                        output  |-> r.output,
                        len     |-> r.len,
                        writers |-> [k \in 0..(cap - 1) |->
                                        WritersOf(slab_b, input_b, cap, n, m, k)]]
    /\ UNCHANGED <<kern_call, pass_vars>>

\* ---- The bitonic sort stage of the baseline pipeline on its own ----
\* Powers of two from 2 up to the capacity
PaddedLens == {n \in 2..MaxCapacity : next_power_of_two(n) = n}

\* What the input buffer can hold when the sort starts
SortContents == Entries \cup {[key |-> PAD_KEY, value |-> PAD_VALUE], ZeroEntry}

SortInit ==
    /\ kern_call \in
          {[name |-> "run_sort_step", padded_len |-> n,
            data |-> WriteBuffer(ZeroBuffer(MaxCapacity), 0, d)] :
               n \in PaddedLens, d \in UNION {[1..m -> SortContents] : m \in PaddedLens}}
    /\ kern_out = KernelPending
    /\ PassIdle

\* BulkPutPipeline::run_sort_step
RunSortStep ==
    /\ kern_call.name = "run_sort_step"
    /\ kern_out = KernelPending
    /\ kern_out' = [name |-> "run_sort_step",
                    data |-> run_sort_step(kern_call.data, kern_call.padded_len)]
    /\ UNCHANGED <<kern_call, pass_vars>>

\* ---- One bitonic pass, thread by thread ----
SortThreads == 0..(MaxCapacity - 1)

\* Entries the thread-level runs sort
PassContents == [key : Keys, value : {1, 2}]

\* BULK_SORT_WGSL main with `ixj != i` in place of `ixj > i`
ThreadActsBothSides(i, ixj, len) == ixj # i /\ ixj < len

\* BULK_SORT_WGSL main: `if (ixj > i && ixj < params.len)`
ThreadActs(i, ixj, len) == ixj > i /\ ixj < len

FreshThreads == [t \in SortThreads |-> "start"]
FreshRegs == [t \in SortThreads |-> [a |-> ZeroEntry, b |-> ZeroEntry]]
NoAccess == [e \in SortThreads |-> {}]

Touch(access, e, t) == [access EXCEPT ![e] = @ \cup {t}]

PassInit ==
    /\ pass_len \in PaddedLens
    /\ pass_input \in {WriteBuffer(ZeroBuffer(MaxCapacity), 0, d) :
                          d \in [1..pass_len -> PassContents]}
    /\ pass_data = pass_input
    /\ pass_k = 2
    /\ pass_j = 1
    /\ pass_pc = FreshThreads
    /\ pass_regs = FreshRegs
    /\ pass_access = NoAccess
    /\ kern_call = NoKernel /\ kern_out = NoKernel

\* `if (i >= params.len) return;`, the guard on ixj, and `let a = data[i];`
ThreadReadA(t) ==
    /\ pass_k <= pass_len
    /\ pass_pc[t] = "start"
    /\ IF t < pass_len /\ ThreadActs(t, BitXor(t, pass_j), pass_len)
       THEN /\ pass_regs' = [pass_regs EXCEPT ![t].a = pass_data[t + 1]]
            /\ pass_access' = Touch(pass_access, t, t)
            /\ pass_pc' = [pass_pc EXCEPT ![t] = "read_b"]
       ELSE /\ pass_pc' = [pass_pc EXCEPT ![t] = "done"]
            /\ UNCHANGED <<pass_regs, pass_access>>
    /\ UNCHANGED <<pass_input, pass_len, pass_data, pass_k, pass_j, kern_call, kern_out>>

\* `let b = data[ixj];`
ThreadReadB(t) ==
    /\ pass_pc[t] = "read_b"
    /\ pass_regs' = [pass_regs EXCEPT ![t].b = pass_data[BitXor(t, pass_j) + 1]]
    /\ pass_access' = Touch(pass_access, BitXor(t, pass_j), t)
    /\ pass_pc' = [pass_pc EXCEPT ![t] = "compare"]
    /\ UNCHANGED <<pass_input, pass_len, pass_data, pass_k, pass_j, kern_call, kern_out>>

\* The comparison in the direction of (i & k), and `data[i] = b;`
ThreadWriteI(t) ==
    /\ pass_pc[t] = "compare"
    /\ LET a == pass_regs[t].a
           b == pass_regs[t].b
           swaps == IF BitAnd(t, pass_k) = 0 THEN a.key > b.key ELSE a.key < b.key
       IN  IF swaps
           THEN /\ pass_data' = [pass_data EXCEPT ![t + 1] = b]
                /\ pass_access' = Touch(pass_access, t, t)
                /\ pass_pc' = [pass_pc EXCEPT ![t] = "write_ixj"]
           ELSE /\ pass_pc' = [pass_pc EXCEPT ![t] = "done"]
                /\ UNCHANGED <<pass_data, pass_access>>
    /\ UNCHANGED <<pass_input, pass_len, pass_k, pass_j, pass_regs, kern_call, kern_out>>

\* `data[ixj] = a;`
ThreadWriteIxj(t) ==
    /\ pass_pc[t] = "write_ixj"
    /\ pass_data' = [pass_data EXCEPT ![BitXor(t, pass_j) + 1] = pass_regs[t].a]
    /\ pass_access' = Touch(pass_access, BitXor(t, pass_j), t)
    /\ pass_pc' = [pass_pc EXCEPT ![t] = "done"]
    /\ UNCHANGED <<pass_input, pass_len, pass_k, pass_j, pass_regs, kern_call, kern_out>>

\* The submission of one pass has completed and the queue starts the next one:
\* `j /= 2`, and `k *= 2; j = k / 2` when j reaches 0
PassNext ==
    /\ pass_k <= pass_len
    /\ \A t \in SortThreads : pass_pc[t] = "done"
    /\ IF pass_j \div 2 > 0
       THEN pass_j' = pass_j \div 2 /\ pass_k' = pass_k
       ELSE pass_k' = 2 * pass_k /\ pass_j' = pass_k
    /\ pass_pc' = FreshThreads
    /\ pass_regs' = FreshRegs
    /\ pass_access' = NoAccess
    /\ UNCHANGED <<pass_input, pass_len, pass_data, kern_call, kern_out>>

\* ---- The serial dedup pass of the baseline pipeline on its own ----
\* Sorted prefixes: ascending keys, equal keys adjacent
SortedInputs ==
    {d \in {<<>>} \cup UNION {[1..n -> Entries \cup {[key |-> PAD_KEY, value |-> PAD_VALUE]}] :
                                 n \in 1..MaxCapacity} :
        \A i \in 1..(Len(d) - 1) : d[i].key <= d[i + 1].key}

DedupInit ==
    /\ kern_call \in {[name |-> "run_dedup_step", len |-> Len(d),
                       data |-> WriteBuffer(ZeroBuffer(MaxCapacity), 0, d)] :
                         d \in SortedInputs}
    /\ kern_out = KernelPending
    /\ PassIdle

\* BulkPutPipeline::run_dedup_step: the dispatch and the readback of dedup_meta
RunDedupStep ==
    /\ kern_call.name = "run_dedup_step"
    /\ kern_out = KernelPending
    /\ LET r == run_dedup_step(kern_call.data, kern_call.len)
       IN  kern_out' = [name |-> "run_dedup_step", data |-> r.data, len |-> r.len]
    /\ UNCHANGED <<kern_call, pass_vars>>

\* ---- The slab indices the shaders read ----
\* What the region [len, capacity) of the slab buffer can hold
Garbage == {ZeroEntry} \cup [key : Keys, value : {2}]

GarbageSlabs(cap, len) ==
    {WriteBuffer(g, 0, SubSeq(b, 1, len)) :
        b \in SortedSlabs(cap, len), g \in [1..cap -> Garbage]}

\* The slab with the region [len, capacity) zeroed
CleanSlab(slab_b, len) == WriteBuffer(ZeroBuffer(Len(slab_b)), 0, SubSeq(slab_b, 1, len))

\* The indices `slab[mid]` of the loop `while (lo < hi)`
RECURSIVE LowerBoundReads(_, _, _, _)
LowerBoundReads(slab_b, key, lo, hi) ==
    IF lo < hi
    THEN LET mid == (lo + hi) \div 2
         IN  {mid} \cup (IF slab_b[mid + 1].key < key
                         THEN LowerBoundReads(slab_b, key, mid + 1, hi)
                         ELSE LowerBoundReads(slab_b, key, lo, mid))
    ELSE {}

\* BULK_GET_WGSL and BULK_DELETE_WGSL main: the search, then slab[lo] behind
\* `lo < slab_meta.len &&`
SearchReads(slab_b, slab_len_d, key) ==
    LET lo == LowerBoundLoop(slab_b, key, 0, slab_len_d)
    IN  LowerBoundReads(slab_b, key, 0, slab_len_d)
           \cup (IF lo < slab_len_d THEN {lo} ELSE {})

\* RANGE_WGSL main and the copy of slab[start..end) in RangeScanPipeline::execute
RangeReads(slab_b, slab_len_h, slab_len_d, from_key, to_key) ==
    IF from_key >= to_key \/ slab_len_h = 0 \/ slab_len_d = 0 THEN {}
    ELSE LET meta == RangeShader(slab_b, slab_len_d, from_key, to_key)
         IN  LowerBoundReads(slab_b, from_key, 0, slab_len_d)
                \cup LowerBoundReads(slab_b, to_key, 0, slab_len_d)
                \cup (IF meta.end <= meta.start THEN {}
                      ELSE meta.start..(meta.end - 1))

\* BULK_MERGE_WGSL main (baseline): the indices `slab[i]` of its loops
RECURSIVE MergeReads(_, _, _, _, _, _)
MergeReads(slab_b, input_b, slab_len_d, input_len, i, j) ==
    IF i < slab_len_d /\ j < input_len
    THEN LET a == slab_b[i + 1]
             b == input_b[j + 1]
         IN  {i} \cup (IF a.key < b.key
                       THEN MergeReads(slab_b, input_b, slab_len_d, input_len, i + 1, j)
                       ELSE IF b.key < a.key
                       THEN MergeReads(slab_b, input_b, slab_len_d, input_len, i, j + 1)
                       ELSE MergeReads(slab_b, input_b, slab_len_d, input_len, i + 1,
                                       j + 1))
    ELSE IF i < slab_len_d
    THEN {i} \cup MergeReads(slab_b, input_b, slab_len_d, input_len, i + 1, j)
    ELSE {}

ReadInit ==
    /\ \E cap \in 1..MaxCapacity : \E len \in 0..Min(cap, Cardinality(Keys)) :
          kern_call \in {[name |-> "slab", capacity |-> cap, len |-> len, slab |-> b] :
                            b \in GarbageSlabs(cap, len)}
    /\ kern_out = KernelPending
    /\ PassIdle

GetValues(slab_b, len, keys) == AsBuffer([i \in 1..Len(keys) |-> Get(slab_b, len, keys[i])])

\* BulkGetPipeline::execute
ReadBulkGet ==
    /\ kern_call.name = "slab"
    /\ kern_out = KernelPending
    /\ \E keys \in LibKeyBatches :
          kern_out' = [name   |-> "bulk_get",
                       arg    |-> keys,
                       reads  |-> UNION {SearchReads(kern_call.slab, kern_call.len,
                                                     keys[i]) : i \in 1..Len(keys)},
                       len    |-> kern_call.len,
                       slab   |-> kern_call.slab,
                       result |-> GetValues(kern_call.slab, kern_call.len, keys),
                       clean  |-> GetValues(CleanSlab(kern_call.slab, kern_call.len),
                                            kern_call.len, keys)]
    /\ UNCHANGED <<kern_call, pass_vars>>

\* BulkDeletePipeline::execute
ReadBulkDelete ==
    /\ kern_call.name = "slab"
    /\ kern_out = KernelPending
    /\ \E keys \in LibKeyBatches :
          LET after == bulk_delete_execute(kern_call.slab, kern_call.len, keys)
              clean == bulk_delete_execute(CleanSlab(kern_call.slab, kern_call.len),
                                           kern_call.len, keys)
          IN  kern_out' = [name   |-> "bulk_delete",
                           arg    |-> keys,
                           reads  |-> UNION {SearchReads(kern_call.slab, kern_call.len,
                                                         keys[i]) : i \in 1..Len(keys)},
                           len    |-> kern_call.len,
                           slab   |-> after,
                           result |-> SubSeq(after, 1, kern_call.len),
                           clean  |-> SubSeq(clean, 1, kern_call.len)]
    /\ UNCHANGED <<kern_call, pass_vars>>

\* RangeScanPipeline::execute
ReadRange ==
    /\ kern_call.name = "slab"
    /\ kern_out = KernelPending
    /\ \E from_key \in Keys, to_key \in Keys :
          kern_out' = [name   |-> "range",
                       arg    |-> <<from_key, to_key>>,
                       reads  |-> RangeReads(kern_call.slab, kern_call.len,
                                             kern_call.len, from_key, to_key),
                       len    |-> kern_call.len,
                       slab   |-> kern_call.slab,
                       result |-> range_execute(kern_call.slab, kern_call.len,
                                                kern_call.len, from_key, to_key),
                       clean  |-> range_execute(CleanSlab(kern_call.slab, kern_call.len),
                                                kern_call.len, kern_call.len, from_key,
                                                to_key)]
    /\ UNCHANGED <<kern_call, pass_vars>>

\* BulkPutPipeline::run_merge_step with a deduped input that fits the capacity
ReadMerge ==
    /\ kern_call.name = "slab"
    /\ kern_out = KernelPending
    /\ \E input_e \in DedupedInputs :
          /\ kern_call.len + Cardinality(NetNewKeys(kern_call.slab, kern_call.len, input_e))
                <= kern_call.capacity
          /\ Len(input_e) <= kern_call.capacity
          /\ LET cap     == kern_call.capacity
                 input_b == WriteBuffer(ZeroBuffer(cap), 0, input_e)
                 after   == run_merge_step(kern_call.slab, kern_call.len, input_b,
                                           ZeroBuffer(cap), Len(input_e))
                 clean   == run_merge_step(CleanSlab(kern_call.slab, kern_call.len),
                                           kern_call.len, input_b, ZeroBuffer(cap),
                                           Len(input_e))
             IN  kern_out' = [name   |-> "merge",
                              arg    |-> input_e,
                              reads  |-> MergeReads(kern_call.slab, input_b,
                                                    kern_call.len, Len(input_e), 0, 0),
                              len    |-> after.len,
                              slab   |-> after.slab,
                              result |-> SubSeq(after.slab, 1, after.len),
                              clean  |-> SubSeq(clean.slab, 1, clean.len)]
    /\ UNCHANGED <<kern_call, pass_vars>>

\* ---- The loops of the shaders and of the host, one iteration per step ----
\* kern_call is the loop's input, kern_out its variables while it runs
Running(r) == r.name = "running"

\* A lower bound whose `lo = mid + 1u` is `lo = mid`
lower_bound_step_stuck(slab_b, tgt, r) ==
    IF r.lo < r.hi
    THEN LET mid == (r.lo + r.hi) \div 2
         IN  IF slab_b[mid + 1].key < tgt
             THEN [r EXCEPT !.lo = mid]
             ELSE [r EXCEPT !.hi = mid]
    ELSE [r EXCEPT !.name = "returned"]

\* RANGE_WGSL lower_bound (and the searches of the get and delete shaders):
\* one test of `while (lo < hi)` and the body behind it
lower_bound_step(slab_b, tgt, r) ==
    IF r.lo < r.hi
    THEN LET mid == (r.lo + r.hi) \div 2
         IN  IF slab_b[mid + 1].key < tgt
             THEN [r EXCEPT !.lo = mid + 1]
             ELSE [r EXCEPT !.hi = mid]
    ELSE [r EXCEPT !.name = "returned"]

\* BulkPutPipeline::run_sort_step: `while k <= max_k`, `while j > 0`
sort_schedule_step(padded_len, r) ==
    IF r.k > padded_len THEN [r EXCEPT !.name = "returned"]
    ELSE IF r.j > 0
    THEN [r EXCEPT !.data = SortPass(r.data, r.k, r.j, padded_len), !.j = r.j \div 2]
    ELSE [r EXCEPT !.k = 2 * r.k, !.j = r.k]

\* BULK_DEDUP_WGSL main: `while (i < len)`
dedup_step(len, r) ==
    IF len = 0 \/ r.i >= len THEN [r EXCEPT !.name = "returned"]
    ELSE LET entry == r.data[r.i + 1]
         IN  IF r.write_idx = 0
             THEN [r EXCEPT !.data = [r.data EXCEPT ![1] = entry], !.prev_key = entry.key,
                            !.write_idx = 1, !.i = r.i + 1]
             ELSE IF entry.key = r.prev_key
             THEN [r EXCEPT !.data = [r.data EXCEPT ![r.write_idx] = entry],
                            !.i = r.i + 1]
             ELSE [r EXCEPT !.data = [r.data EXCEPT ![r.write_idx + 1] = entry],
                            !.prev_key = entry.key, !.write_idx = r.write_idx + 1,
                            !.i = r.i + 1]

\* BULK_MERGE_WGSL main (baseline): the three loops over i, j and k
merge_step(slab_b, input_b, slab_len_d, input_len, r) ==
    IF r.i < slab_len_d /\ r.j < input_len
    THEN LET a == slab_b[r.i + 1]
             b == input_b[r.j + 1]
         IN  IF a.key < b.key THEN [r EXCEPT !.i = r.i + 1, !.k = r.k + 1]
             ELSE IF b.key < a.key THEN [r EXCEPT !.j = r.j + 1, !.k = r.k + 1]
             ELSE [r EXCEPT !.i = r.i + 1, !.j = r.j + 1, !.k = r.k + 1]
    ELSE IF r.i < slab_len_d THEN [r EXCEPT !.i = r.i + 1, !.k = r.k + 1]
    ELSE IF r.j < input_len THEN [r EXCEPT !.j = r.j + 1, !.k = r.k + 1]
    ELSE [r EXCEPT !.name = "returned"]

\* BULK_MERGE_WGSL merge_partition (lib.rs): one turn of `loop { ... }`
partition_step(slab_b, input_b, k, slab_len_d, input_len, r) ==
    LET i          == r.i
        j          == k - i
        move_left  == i > 0 /\ j < input_len /\ slab_b[i].key >= input_b[j + 1].key
        move_right == j > 0 /\ i < slab_len_d /\ input_b[j].key > slab_b[i + 1].key
    IN  IF move_left
        THEN [r EXCEPT !.i_high = i - 1, !.i = (r.i_low + (i - 1)) \div 2]
        ELSE IF move_right
        THEN [r EXCEPT !.i_low = i + 1, !.i = ((i + 1) + r.i_high + 1) \div 2]
        ELSE [r EXCEPT !.name = "returned"]

\* Slab and deduped input that pass the capacity check
FittingPairs ==
    {pr \in MergedSlabs \X DedupedInputs : Len(pr[1]) + Len(pr[2]) <= MaxCapacity}

LoopCalls ==
    UNION {{[name |-> "lower_bound", slab |-> b, len |-> n, tgt |-> t] :
               b \in SortedSlabs(MaxCapacity, n), t \in Keys} :
             n \in 0..Cardinality(Keys)}
    \cup {[name |-> "run_sort_step", padded_len |-> n,
           data |-> WriteBuffer(ZeroBuffer(MaxCapacity), 0, d)] :
             n \in PaddedLens, d \in UNION {[1..m -> PassContents] : m \in PaddedLens}}
    \cup {[name |-> "run_dedup_step", len |-> Len(d),
           data |-> WriteBuffer(ZeroBuffer(MaxCapacity), 0, d)] : d \in SortedInputs}
    \cup {[name |-> "merge", slab |-> pr[1], input |-> pr[2]] : pr \in FittingPairs}
    \cup UNION {{[name |-> "merge_partition", slab |-> pr[1], input |-> pr[2], k |-> k] :
                    k \in 0..(Len(pr[1]) + Len(pr[2]))} : pr \in FittingPairs}

\* The loop variables when the loop is entered
LoopEntry(c) ==
    CASE c.name = "lower_bound" -> [name |-> "running", lo |-> 0, hi |-> c.len]
      [] c.name = "run_sort_step" -> [name |-> "running", k |-> 2, j |-> 1, data |-> c.data]
      [] c.name = "run_dedup_step" ->
            [name |-> "running", i |-> 0, write_idx |-> 0, prev_key |-> 0, data |-> c.data]
      [] c.name = "merge" -> [name |-> "running", i |-> 0, j |-> 0, k |-> 0]
      [] c.name = "merge_partition" ->
            [name |-> "running",
             i_low |-> IF c.k > Len(c.input) THEN c.k - Len(c.input) ELSE 0,
             i_high |-> Min(c.k, Len(c.slab)),
             i |-> Min(c.k, Len(c.slab))]

LoopInit ==
    /\ kern_call \in LoopCalls
    /\ kern_out = LoopEntry(kern_call)
    /\ PassIdle

LowerBoundStep ==
    /\ kern_call.name = "lower_bound" /\ Running(kern_out)
    /\ kern_out' = lower_bound_step(kern_call.slab, kern_call.tgt, kern_out)
    /\ UNCHANGED <<kern_call, pass_vars>>

SortScheduleStep ==
    /\ kern_call.name = "run_sort_step" /\ Running(kern_out)
    /\ kern_out' = sort_schedule_step(kern_call.padded_len, kern_out)
    /\ UNCHANGED <<kern_call, pass_vars>>

DedupStep ==
    /\ kern_call.name = "run_dedup_step" /\ Running(kern_out)
    /\ kern_out' = dedup_step(kern_call.len, kern_out)
    /\ UNCHANGED <<kern_call, pass_vars>>

MergeStep ==
    /\ kern_call.name = "merge" /\ Running(kern_out)
    /\ kern_out' = merge_step(WriteBuffer(ZeroBuffer(MaxCapacity), 0, kern_call.slab),
                              WriteBuffer(ZeroBuffer(MaxCapacity), 0, kern_call.input),
                              Len(kern_call.slab), Len(kern_call.input), kern_out)
    /\ UNCHANGED <<kern_call, pass_vars>>

PartitionStep ==
    /\ kern_call.name = "merge_partition" /\ Running(kern_out)
    /\ kern_out' = partition_step(WriteBuffer(ZeroBuffer(MaxCapacity), 0, kern_call.slab),
                                  WriteBuffer(ZeroBuffer(MaxCapacity), 0, kern_call.input),
                                  kern_call.k, Len(kern_call.slab), Len(kern_call.input),
                                  kern_out)
    /\ UNCHANGED <<kern_call, pass_vars>>

vars == <<base_vars, pipe_vars, lib_vars, array_vars, del_vars, seq_vars, union_vars,
          queue_vars, step_vars, kernel_vars>>

\* One call of BulkPutPipeline::execute
PipeExecute ==
    /\ p_result.state = "pending"
    /\ LET input_b == WriteBuffer(ZeroBuffer(p_capacity), 0, p_entries)
           r       == execute(p_capacity, p_slab, p_len, p_len, input_b,
                              ZeroBuffer(p_capacity), 0, Len(p_entries))
       IN  /\ p_slab' = r.slab
           /\ p_result' = [state |-> IF r.ok THEN "Ok" ELSE "CapacityExceeded",
                           len |-> r.len]
    /\ UNCHANGED <<p_capacity, p_before, p_len, p_entries, base_vars, lib_vars,
                   array_vars, del_vars, seq_vars, union_vars, queue_vars, step_vars, kernel_vars>>

BasePut ==
    /\ \E entries \in Batches : BulkPut(entries)
    /\ UNCHANGED <<pipe_vars, lib_vars, array_vars, del_vars, seq_vars, union_vars, queue_vars, step_vars, kernel_vars>>

BaseDelete ==
    /\ \E keys \in KeyBatches : BulkDelete(keys)
    /\ UNCHANGED <<pipe_vars, lib_vars, array_vars, del_vars, seq_vars, union_vars, queue_vars, step_vars, kernel_vars>>

\* GpuSortedMap::bulk_put and put (lib.rs)
LibBulkPut ==
    /\ \E entries \in LibBatches : LibPutEntries("bulk_put", entries)
    /\ UNCHANGED <<base_vars, pipe_vars, array_vars, del_vars, seq_vars, union_vars, queue_vars, step_vars, kernel_vars>>

\* GpuSortedMap::bulk_delete and delete (lib.rs)
LibBulkDelete ==
    /\ \E keys \in LibKeyBatches : LibPutEntries("bulk_delete", BulkDeleteOp_new(keys))
    /\ UNCHANGED <<base_vars, pipe_vars, array_vars, del_vars, seq_vars, union_vars, queue_vars, step_vars, kernel_vars>>

\* GpuArray::update_len
ArrayUpdateLen ==
    /\ \E new_len \in Lengths :
          LET upd == update_len(array_capacity, new_len)
          IN  /\ array_len' = upd.len
              /\ array_meta' = upd.meta
              /\ array_last' = [op |-> "update_len", arg |-> new_len]
    /\ UNCHANGED <<array_capacity, array_buffer, array_new, base_vars, pipe_vars,
                   lib_vars, del_vars, seq_vars, union_vars, queue_vars, step_vars, kernel_vars>>

\* GpuArray::write; the buffer holds array_capacity elements
ArrayWrite ==
    /\ \E data \in ArrayData :
          /\ Len(data) <= array_capacity
          /\ array_buffer' = IF data = <<>> THEN array_buffer
                             ELSE WriteBuffer(array_buffer, 0, data)
          /\ array_last' = [op |-> "write", arg |-> Len(data)]
    /\ UNCHANGED <<array_capacity, array_len, array_meta, array_new, base_vars,
                   pipe_vars, lib_vars, del_vars, seq_vars, union_vars, queue_vars, step_vars, kernel_vars>>

Init == BaseInit /\ PipeIdle /\ LibIdle /\ ArrayIdle /\ DelIdle /\ SeqIdle /\ UnionIdle /\ QueueIdle /\ StepIdle /\ KernelIdle
Next == BasePut \/ BaseDelete
Spec == Init /\ [][Next]_vars

InitPipe == PipeInit /\ BaseIdle /\ LibIdle /\ ArrayIdle /\ DelIdle /\ SeqIdle /\ UnionIdle /\ QueueIdle /\ StepIdle /\ KernelIdle
NextPipe == PipeExecute
SpecPipe == InitPipe /\ [][NextPipe]_vars

InitLib == LibInit /\ BaseIdle /\ PipeIdle /\ ArrayIdle /\ DelIdle /\ SeqIdle /\ UnionIdle /\ QueueIdle /\ StepIdle /\ KernelIdle
NextLib == LibBulkPut \/ LibBulkDelete
SpecLib == InitLib /\ [][NextLib]_vars

InitArray == ArrayInit /\ BaseIdle /\ PipeIdle /\ LibIdle /\ DelIdle /\ SeqIdle /\ UnionIdle /\ QueueIdle /\ StepIdle /\ KernelIdle
NextArray == ArrayUpdateLen \/ ArrayWrite
SpecArray == InitArray /\ [][NextArray]_vars

DeleteSearch ==
    /\ \E t \in DeleteThreads : DelSearch(t)
    /\ UNCHANGED <<base_vars, pipe_vars, lib_vars, array_vars, seq_vars, union_vars, queue_vars, step_vars, kernel_vars>>

DeleteStore ==
    /\ \E t \in DeleteThreads : DelStore(t)
    /\ UNCHANGED <<base_vars, pipe_vars, lib_vars, array_vars, seq_vars, union_vars, queue_vars, step_vars, kernel_vars>>

InitDelete == DelInit /\ BaseIdle /\ PipeIdle /\ LibIdle /\ ArrayIdle /\ SeqIdle /\ UnionIdle /\ QueueIdle /\ StepIdle /\ KernelIdle
NextDelete == DeleteSearch \/ DeleteStore
SpecDelete == InitDelete /\ [][NextDelete]_vars

LibSeqFrame == UNCHANGED <<base_vars, pipe_vars, array_vars, del_vars, union_vars, queue_vars, step_vars, kernel_vars>>

InitLibSeq == LibInit /\ SeqIdle /\ BaseIdle /\ PipeIdle /\ ArrayIdle /\ DelIdle /\ UnionIdle /\ QueueIdle /\ StepIdle /\ KernelIdle
NextLibSeq ==
    \/ LibSeqOther /\ LibSeqFrame
    \/ LibSeqPut /\ LibSeqFrame
    \/ LibSeqDelete /\ LibSeqFrame
    \/ LibSeqPutAgain /\ LibSeqFrame
SpecLibSeq == InitLibSeq /\ [][NextLibSeq]_vars

BaseSeqFrame == UNCHANGED <<pipe_vars, lib_vars, array_vars, del_vars, union_vars, queue_vars, step_vars, kernel_vars>>

InitPutTwice == BaseInit /\ SeqIdle /\ PipeIdle /\ LibIdle /\ ArrayIdle /\ DelIdle /\ UnionIdle /\ QueueIdle /\ StepIdle /\ KernelIdle
NextPutTwice ==
    \/ BaseSeqOther /\ BaseSeqFrame
    \/ BaseSeqPut /\ BaseSeqFrame
    \/ BaseSeqPutAgain /\ BaseSeqFrame
SpecPutTwice == InitPutTwice /\ [][NextPutTwice]_vars

UnionFrame ==
    UNCHANGED <<base_vars, pipe_vars, lib_vars, array_vars, del_vars, seq_vars, queue_vars, step_vars, kernel_vars>>

InitUnion ==
    UnionInit /\ BaseIdle /\ PipeIdle /\ LibIdle /\ ArrayIdle /\ DelIdle /\ SeqIdle /\ QueueIdle /\ StepIdle /\ KernelIdle
NextUnion ==
    \/ UnionPutFirstOrder /\ UnionFrame
    \/ UnionPutSecondOrder /\ UnionFrame
SpecUnion == InitUnion /\ [][NextUnion]_vars

QueueFrame ==
    UNCHANGED <<base_vars, pipe_vars, lib_vars, array_vars, del_vars, seq_vars, union_vars,
                step_vars, kernel_vars>>

InitQueue ==
    /\ QueueInit
    /\ BaseIdle /\ PipeIdle /\ LibIdle /\ ArrayIdle /\ DelIdle /\ SeqIdle /\ UnionIdle /\ StepIdle /\ KernelIdle
NextQueue ==
    \/ HostWriteInput /\ QueueFrame
    \/ HostExecute /\ QueueFrame
    \/ HostDedupReadback /\ QueueFrame
    \/ HostMergeReadback /\ QueueFrame
    \/ HostDelete /\ QueueFrame
    \/ HostObserve /\ QueueFrame
    \/ HostObserveReadback /\ QueueFrame
    \/ DeviceStep /\ QueueFrame
SpecQueue == InitQueue /\ [][NextQueue]_vars

StepFrame ==
    UNCHANGED <<base_vars, pipe_vars, array_vars, del_vars, seq_vars, union_vars,
                queue_vars, kernel_vars>>

InitLibSteps ==
    /\ LibInit /\ StepInit
    /\ BaseIdle /\ PipeIdle /\ ArrayIdle /\ DelIdle /\ SeqIdle /\ UnionIdle /\ QueueIdle /\ KernelIdle
NextLibSteps ==
    \/ StepBulkPut /\ StepFrame
    \/ StepBulkDelete /\ StepFrame
    \/ StepBulkGet /\ StepFrame
    \/ StepSubmitSort /\ StepFrame
    \/ StepReadError /\ StepFrame
    \/ StepMerge /\ StepFrame
SpecLibSteps == InitLibSteps /\ [][NextLibSteps]_vars

KernelFrame ==
    UNCHANGED <<base_vars, pipe_vars, lib_vars, array_vars, del_vars, seq_vars, union_vars,
                queue_vars, step_vars>>

OthersIdle ==
    /\ BaseIdle /\ PipeIdle /\ LibIdle /\ ArrayIdle /\ DelIdle /\ SeqIdle /\ UnionIdle
    /\ QueueIdle /\ StepIdle

InitRadix == RadixInit /\ OthersIdle
NextRadix == RadixSortDedup /\ KernelFrame
SpecRadix == InitRadix /\ [][NextRadix]_vars

InitMerge == MergeInit /\ OthersIdle
NextMerge == BulkMerge /\ KernelFrame
SpecMerge == InitMerge /\ [][NextMerge]_vars

InitSort == SortInit /\ OthersIdle
NextSort == RunSortStep /\ KernelFrame
SpecSort == InitSort /\ [][NextSort]_vars

\* There is no cancellation: a loop that can take its next iteration takes it
InitLoops == LoopInit /\ OthersIdle
NextLoops ==
    \/ LowerBoundStep /\ KernelFrame
    \/ SortScheduleStep /\ KernelFrame
    \/ DedupStep /\ KernelFrame
    \/ MergeStep /\ KernelFrame
    \/ PartitionStep /\ KernelFrame
SpecLoops == InitLoops /\ [][NextLoops]_vars /\ WF_vars(NextLoops)

InitReads == ReadInit /\ OthersIdle
NextReads ==
    \/ ReadBulkGet /\ KernelFrame
    \/ ReadBulkDelete /\ KernelFrame
    \/ ReadRange /\ KernelFrame
    \/ ReadMerge /\ KernelFrame
SpecReads == InitReads /\ [][NextReads]_vars

InitDedup == DedupInit /\ OthersIdle
NextDedup == RunDedupStep /\ KernelFrame
SpecDedup == InitDedup /\ [][NextDedup]_vars

InitSortPass == PassInit /\ OthersIdle
NextSortPass ==
    \/ (\E t \in SortThreads : ThreadReadA(t)) /\ KernelFrame
    \/ (\E t \in SortThreads : ThreadReadB(t)) /\ KernelFrame
    \/ (\E t \in SortThreads : ThreadWriteI(t)) /\ KernelFrame
    \/ (\E t \in SortThreads : ThreadWriteIxj(t)) /\ KernelFrame
    \/ PassNext /\ KernelFrame
SpecSortPass == InitSortPass /\ [][NextSortPass]_vars

\* GpuSortedMap::get
get(k) == Get(slab, slab_meta.len, k)

\* GpuSortedMap::range
range(a, b) == SelectSeq(range_execute(slab, slab_len, slab_meta.len, a, b), IsLive)

Sorted(slab_b, len) == \A i, j \in 1..len : i < j => slab_b[i].key < slab_b[j].key

\* The slab's logical contents: the entries in [0, len)
Contents(slab_b, len) == SubSeq(slab_b, 1, len)

ValidationErrors == {"TombstoneReserved", "DuplicateKey"}
PutErrors == ValidationErrors \cup {"CapacityExceeded"}

\* -------------------------------------------------------------------------
\* C1: after any sequence of bulk_put and bulk_delete calls, for every key k,
\* get(k) is Some(v) exactly when the latest successful put of k stored v and
\* no delete of k followed it, and None otherwise.
C1_GetRefinesHistory == \A k \in Keys : get(k) = hist[k]

\* C2: after every public call the slab keys in [0, len) are strictly
\* ascending (sorted, I1, and without repetition, I2), and the host length
\* agrees with the device's.
C2_SortedUnique == Sorted(slab, slab_len) /\ slab_meta.len = slab_len

C2_Witness ==
    /\ slab_len >= 3
    /\ last.op = "bulk_delete"
    /\ \E i \in 1..slab_len : slab[i].value = TOMBSTONE_VALUE

\* C4: a bulk_put that returns an error leaves the slab contents in [0, len),
\* the slab length on host and device, and the live count as they were.
C4_ErrorsAreAtomic ==
    [][last'.op = "bulk_put" /\ last'.result \in PutErrors
        => /\ Contents(slab, slab_len)' = Contents(slab, slab_len)
           /\ slab_len' = slab_len
           /\ slab_meta' = slab_meta
           /\ live_count' = live_count]_vars

C4_Witness ==
    /\ last.op = "bulk_put"
    /\ last.result = "CapacityExceeded"
    /\ slab_len > 0
    /\ last.requested <= capacity

\* C5: for every capacity C, a put that brings the slab to exactly C keys
\* succeeds and leaves the slab length C, and a put that would need more than
\* C keys fails with CapacityExceeded.
C5_ExactFillThenOneMore ==
    last.op = "bulk_put" /\ last.result \notin ValidationErrors
        => /\ last.requested = capacity => last.result = "Ok" /\ slab_len = capacity
           /\ last.requested > capacity => last.result = "CapacityExceeded"

\* C6: a bulk_put whose batch keys are all stored in the slab already never
\* fails with CapacityExceeded, whatever the slab length.
C6_NoGrowthNeverCapacityExceeded ==
    ~(last.op = "bulk_put" /\ last.result = "CapacityExceeded"
        /\ last.requested = slab_len)

\* -------------------------------------------------------------------------
\* C3: when execute returns Ok(n) for a sorted, duplicate-free slab of length L
\* and a batch of distinct keys, n is the number of distinct keys of slab and
\* batch together, and slab[0..n) holds in ascending key order the batch's
\* entry for every batch key and the previous entry for every other slab key.
C3_ExecutePostcondition ==
    p_result.state = "Ok" =>
        LET n == p_result.len
        IN  /\ n = Cardinality(KeySet(Contents(p_before, p_len)) \cup KeySet(p_entries))
            /\ n <= p_capacity
            /\ Sorted(p_slab, n)
            /\ \A e \in Range(p_entries) : \E i \in 1..n : p_slab[i] = e
            /\ \A i \in 1..p_len :
                  p_before[i].key \notin KeySet(p_entries)
                      => \E j \in 1..n : p_slab[j] = p_before[i]

\* -------------------------------------------------------------------------
\* C7: a bulk_put (or put) whose batch has an entry with the value 0xFFFF_FFFF
\* fails with TombstoneReserved and stores nothing.
C7_TombstoneValueRejected ==
    [][map_last'.op = "bulk_put" /\ map_last'.tombstone
        => /\ map_last'.result = "TombstoneReserved"
           /\ UNCHANGED <<slab_buffer, map_len, meta_buffer>>]_vars

\* C8: a bulk_put whose batch has two entries with the same key is rejected
\* with DuplicateKey and leaves the map as it was.
C8_DuplicateKeyRejected ==
    [][map_last'.op = "bulk_put" /\ map_last'.duplicate /\ ~map_last'.tombstone
        => /\ map_last'.result = "DuplicateKey"
           /\ UNCHANGED <<slab_buffer, map_len, meta_buffer>>]_vars

\* C9: len() is the number of keys k for which get(k) is Some.
C9_LenIsLiveCount == map_len = Cardinality({k \in Keys : map_get(k) # NONE})

\* C10: the length of a GpuArray stays within 0..capacity and capacity() stays
\* the value passed to new, whatever is passed to update_len.
C10_LenWithinCapacity ==
    /\ 0 <= array_len
    /\ array_len <= array_capacity
    /\ array_capacity = array_new
    /\ array_meta = [len |-> array_len, capacity |-> array_new]

C10_Witness ==
    /\ array_last.op = "update_len"
    /\ array_last.arg > array_capacity
    /\ array_len = array_capacity

\* -------------------------------------------------------------------------
\* C11: for every pair of keys (a, b), range(a, b) is the list, in slab order,
\* of the slab entries with a <= key < b whose value is not the tombstone; it
\* is empty when a >= b, when the slab is empty and when no key lies in [a, b).
InRange(a, b, entry) == a <= entry.key /\ entry.key < b /\ IsLive(entry)

DeleteKeySet == Range(d_keys)

C12_DeleteChangesOnlyBatchValues ==
    /\ Len(d_slab) = Len(d_before)
    /\ \A i \in 1..d_capacity :
          /\ d_slab[i].key = d_before[i].key
          /\ d_slab[i] # d_before[i] =>
                /\ i <= d_len
                /\ d_before[i].key \in DeleteKeySet
                /\ d_slab[i].value = TOMBSTONE_VALUE
    /\ \A k \in Keys \ DeleteKeySet : Get(d_slab, d_len, k) = Get(d_before, d_len, k)

DeleteDone == \A t \in DeleteThreads : d_pc[t] = "done"

C12_Witness ==
    /\ DeleteDone
    /\ \E i, j \in 1..d_len :
          /\ d_before[i].value # TOMBSTONE_VALUE
          /\ d_slab[i].value = TOMBSTONE_VALUE
          /\ d_before[j].key \notin DeleteKeySet
          /\ d_before[j].value # TOMBSTONE_VALUE
          /\ d_slab[j] = d_before[j]

\* -------------------------------------------------------------------------
\* C13: whatever the order in which the delete threads run, once all of them
\* have finished the slab is the slab before the call with the value of
\* exactly the entries whose key occurs in the batch set to the tombstone; a
\* key that occurs several times acts as one occurrence and a key that is not
\* stored changes nothing.
DeleteExpected ==
    [i \in 1..d_capacity |->
        IF i <= d_len /\ d_before[i].key \in DeleteKeySet
        THEN [key |-> d_before[i].key, value |-> TOMBSTONE_VALUE]
        ELSE d_before[i]]

C13_DeleteOrderIndependent ==
    DeleteDone => \A i \in 1..d_capacity : d_slab[i] = DeleteExpected[i]

C13_Witness ==
    /\ DeleteDone
    /\ \E s, t \in DeleteThreads :
          /\ s # t
          /\ d_keys[s] = d_keys[t]
          /\ \E i \in 1..d_len :
                /\ d_before[i].key = d_keys[s]
                /\ d_before[i].value # TOMBSTONE_VALUE
                /\ d_slab[i].value = TOMBSTONE_VALUE
    /\ \E t \in DeleteThreads :
          \A i \in 1..d_len : d_before[i].key # d_keys[t]
    /\ \E i \in 1..d_len : d_slab[i].value # TOMBSTONE_VALUE

\* -------------------------------------------------------------------------
\* C14: GpuSortedMap::bulk_delete (and delete) of lib.rs has no error outcome:
\* in every state, the slab filled to capacity included, and for every key
\* slice, keys that are not stored included, the call returns Ok and leaves
\* the slab length as it was.
C14_DeleteSucceedsAndKeepsLength ==
    [][map_last'.op = "bulk_delete"
        => /\ map_last'.result = "Ok"
           /\ map_len' = map_len
           /\ meta_buffer'.len = meta_buffer.len]_vars

\* -------------------------------------------------------------------------
\* C15: for every key k and values v1, v2 other than the tombstone, in a map
\* that has room for k, after put(k, v1); delete(k) the key reads None and
\* after the following put(k, v2) it reads Some(v2).
C15_DeleteThenPutRestores ==
    /\ seq_stage = 2 => map_get(seq_key) = NONE
    /\ seq_stage = 3 => map_get(seq_key) = seq_value[2]

\* -------------------------------------------------------------------------
\* C16: put is idempotent. The second call of put(k, v); put(k, v) leaves the
\* slab entries, the slab length, len() and the result of every get as the
\* first call left them, and after put(k, v1); put(k, v2) the slab holds
\* exactly one entry for k, with the value v2.
EntriesOf(k) == {i \in 1..slab_len : slab[i].key = k}

C17_UnionCommutes ==
    u_ab.done = 2 /\ u_ba.done = 2 =>
        /\ u_ab.ok
        /\ u_ba.ok
        /\ u_ab.len = u_ba.len
        /\ u_ab.meta = u_ba.meta
        /\ Contents(u_ab.slab, u_ab.len) = Contents(u_ba.slab, u_ba.len)

\* -------------------------------------------------------------------------
\* C18: within one bulk_put the device runs the steps in the order sort,
\* dedup, merge, copy of the merge buffer over the slab, slab length update;
\* and a bulk_get or range issued after bulk_put or bulk_delete has returned
\* sees the slab contents and the slab length the call produced, both of them,
\* never the new contents with the old length or the old contents with the
\* new length.
StepOrder ==
    <<"write_input", "write_pad", "sort", "dedup", "merge", "copy", "write_len",
      "delete", "observe">>

Rank(name) == CHOOSE r \in 1..Len(StepOrder) : StepOrder[r] = name

\* The slab and length the call produces when nothing else runs beside it
CallOutcome ==
    IF q_call.op = "bulk_delete"
    THEN [slab |-> bulk_delete_execute(q_call.slab, q_call.len, q_call.keys),
          len |-> q_call.len]
    ELSE LET cap == q_call.capacity
             r   == execute(cap, q_call.slab, q_call.len, q_call.len,
                            WriteBuffer(ZeroBuffer(cap), 0, q_call.entries),
                            ZeroBuffer(cap), 0, Len(q_call.entries))
         IN  IF r.ok THEN [slab |-> r.slab, len |-> update_len(cap, r.len).len]
             ELSE [slab |-> q_call.slab, len |-> q_call.len]

C18_StepsInOrderAndReadSeesCall ==
    /\ \A i, j \in 1..Len(q_log) : i < j => Rank(q_log[i]) < Rank(q_log[j])
    /\ q_obs # <<>> =>
          q_obs[1] = Observation(CallOutcome.slab, CallOutcome.len, CallOutcome.len)

C18_Witness ==
    /\ q_host.pc = "done"
    /\ q_call.op = "bulk_put"
    /\ q_log = <<"write_input", "write_pad", "sort", "dedup", "merge", "copy",
                 "write_len", "observe">>
    /\ q_obs[1].len > q_call.len
    /\ q_obs[1].len >= 3

\* -------------------------------------------------------------------------
\* C19: CapacityExceeded is reported before any device work: a bulk_put that
\* ends in CapacityExceeded has made no buffer write and no queue submission
\* by the time the error is decided.
C19_CapacityExceededBeforeDeviceWork ==
    step_last.op = "bulk_put" /\ step_last.result = "CapacityExceeded"
        => step_last.work_before = <<>>

\* -------------------------------------------------------------------------
\* C20: empty inputs are no-ops: bulk_put([]) returns Ok, bulk_get([]) returns
\* an empty vector and bulk_delete([]) returns normally, each at once and
\* without a queue write or a submission, and each leaves the slab contents,
\* the slab length and the result of every get as they were.
C20_EmptyInputsAreNoOps ==
    [][step_pc = "idle" /\ step_last'.empty =>
        /\ step_pc' = "idle"
        /\ step_last'.result = "Ok"
        /\ step_last'.values = <<>>
        /\ step_last'.work_before = <<>>
        /\ step_log' = <<>>
        /\ UNCHANGED <<slab_buffer, meta_buffer, map_len, merge_buffer>>
        /\ \A k \in Keys : map_get(k)' = map_get(k)]_vars

C20_Witness ==
    /\ step_last.empty
    /\ step_last.op = "bulk_delete"
    /\ step_pc = "idle"
    /\ map_len >= 2
    /\ \E k \in Keys : map_get(k) # NONE

\* -------------------------------------------------------------------------
\* C21: after update_len(n), for any n, the host length is min(n, capacity) and
\* the metadata record on the device holds that same length and the capacity
\* given to new; so the length a shader reads is the host length after every
\* length update.
C21_UpdateLenMirrorsClampedLength ==
    [][array_last'.op = "update_len" =>
        /\ array_len' = Min(array_last'.arg, array_capacity)
        /\ array_meta'.len = array_len'
        /\ array_meta'.capacity = array_new
        /\ array_capacity' = array_new]_vars

C21_Witness ==
    /\ array_last.op = "update_len"
    /\ array_last.arg >= 1
    /\ array_last.arg < array_capacity
    /\ array_meta.len = array_last.arg

\* -------------------------------------------------------------------------
\* C22: sort padding never reaches the slab: after a bulk_put of a batch of
\* length 1..capacity, the key 0xFFFF_FFFF in the batch included, every slab
\* entry below the new length is an entry the slab held before or an entry of
\* the batch with its own value.
C22_PaddingNeverReachesSlab ==
    p_result.state = "Ok" =>
        \A i \in 1..p_result.len :
            \/ p_slab[i] \in Range(p_entries)
            \/ \E j \in 1..p_len : p_slab[i] = p_before[j]

\* The position in the batch of the last entry with the key
LastIndexOf(entries, key) ==
    CHOOSE i \in 1..Len(entries) :
        /\ entries[i].key = key
        /\ \A j \in (i + 1)..Len(entries) : entries[j].key # key

\* C23: last write wins inside a batch on the radix-sort path: after the
\* stable one-bit scatter passes and dedup, the compacted buffer holds for
\* every key of the batch the entry occurring last in the batch, in
\* ascending key order, and the deduped length is the number of distinct keys
C23_RadixDedupKeepsLastWrite ==
    kern_out.name = "radix_sort_dedup" =>
        LET entries == kern_call.entries
        IN  /\ kern_out.unique = Cardinality(KeySet(entries))
            /\ \A i \in 1..kern_out.unique :
                  /\ kern_out.compact[i].key \in KeySet(entries)
                  /\ kern_out.compact[i]
                        = entries[LastIndexOf(entries, kern_out.compact[i].key)]
            /\ \A i, j \in 1..kern_out.unique :
                  i < j => kern_out.compact[i].key < kern_out.compact[j].key

\* A batch of three writes of one key with three values has been deduped
C23_Witness ==
    /\ kern_out.name = "radix_sort_dedup"
    /\ Len(kern_call.entries) = 3
    /\ kern_call.entries[1].key = kern_call.entries[3].key
    /\ kern_call.entries[2].key > kern_call.entries[1].key
    /\ kern_call.entries[1].value # kern_call.entries[3].value
    /\ kern_out.unique = 2
    /\ kern_out.compact[1] = kern_call.entries[3]

\* The serial merge of two key-ordered sequences; of two equal keys the
\* input's entry goes first. Entry i of a lands behind the entries of b with
\* keys up to its own, entry j of b behind the entries of a with smaller keys.
SerialMerge(a, b) ==
    LET PosA(i) == i + Cardinality({j \in 1..Len(b) : b[j].key <= a[i].key})
        PosB(j) == j + Cardinality({i \in 1..Len(a) : a[i].key < b[j].key})
    IN  AsBuffer([p \in 1..(Len(a) + Len(b)) |->
            IF \E i \in 1..Len(a) : PosA(i) = p
            THEN a[CHOOSE i \in 1..Len(a) : PosA(i) = p]
            ELSE b[CHOOSE j \in 1..Len(b) : PosB(j) = p]])

\* C24: the chunked merge is equivalent to a serial merge: whenever
\* slab.len + input.len <= capacity, every index below merge_meta.len is
\* written by exactly one thread, the written entries are the key-ordered
\* merge of slab and input, and merge_meta.len is the written length
C24_ChunkedMergeIsSerialMerge ==
    kern_out.name = "bulk_merge" =>
        /\ \A k \in 0..(kern_out.len - 1) : Cardinality(kern_out.writers[k]) = 1
        /\ SubSeq(kern_out.output, 1, kern_out.len)
              = SerialMerge(kern_call.slab, kern_call.input)
        /\ kern_out.len
              = Cardinality({k \in DOMAIN kern_out.writers : kern_out.writers[k] # {}})

\* The same for the lengths the threads of the workgroup cover
ChunkedMergeWithinCoverage ==
    (kern_out.name = "bulk_merge" /\ kern_call.capacity = MaxCapacity) =>
        C24_ChunkedMergeIsSerialMerge

\* How often the entry occurs in the first n elements of the buffer
CountIn(buf, n, e) == Cardinality({i \in 1..n : buf[i] = e})

\* C25: the bitonic sort stage is correct: for every power-of-two padded
\* length and every content of the input buffer, after the full (k, j)
\* schedule input[0..padded_len) is ascending by key and is a permutation of
\* the entries that were there before
C25_BitonicSortSorts ==
    kern_out.name = "run_sort_step" =>
        LET n == kern_call.padded_len
        IN  /\ \A i \in 1..(n - 1) : kern_out.data[i].key <= kern_out.data[i + 1].key
            /\ \A e \in SortContents :
                  CountIn(kern_out.data, n, e) = CountIn(kern_call.data, n, e)
            /\ \A i \in (n + 1)..Len(kern_out.data) : kern_out.data[i] = kern_call.data[i]

\* Four entries in descending key order, the last two with one key, have been
\* sorted
C25_Witness ==
    /\ kern_out.name = "run_sort_step"
    /\ kern_call.padded_len = 4
    /\ kern_call.data[1].key > kern_call.data[2].key
    /\ kern_call.data[2].key > kern_call.data[3].key
    /\ kern_call.data[3].key = kern_call.data[4].key
    /\ kern_out.data[3] = kern_call.data[2]
    /\ kern_out.data[4] = kern_call.data[1]

\* C26: each bitonic pass is race-free: within one (k, j) pass no element is
\* read or written by two different threads, a thread acts only when
\* (i XOR j) > i and touches only i and i XOR j, and with every pass starting
\* after the previous one has completed the sorted result is the same under
\* every interleaving of the threads
C26_PassesAreRaceFree ==
    pass_len > 0 =>
        /\ \A e \in SortThreads :
              /\ Cardinality(pass_access[e]) <= 1
              /\ \A t \in pass_access[e] :
                    /\ BitXor(t, pass_j) > t
                    /\ e \in {t, BitXor(t, pass_j)}
        /\ pass_k > pass_len => pass_data = run_sort_step(pass_input, pass_len)

\* In the last pass over four entries two threads are between their reads and
\* their writes at the same time
C26_Witness ==
    /\ pass_len = 4
    /\ pass_k = 4
    /\ pass_j = 1
    /\ pass_pc[0] = "write_ixj"
    /\ pass_pc[2] = "write_ixj"
    /\ pass_access[1] = {0}
    /\ pass_access[2] = {2}

\* C27: the serial dedup pass is correct: given input[0..len) ascending by
\* key it leaves input[0..m) strictly ascending with m the number of distinct
\* keys, keeps for each key the entry that had the highest index among its
\* equals, and writes m to the length record (0 when len is 0)
C27_DedupKeepsLastOfEachKey ==
    kern_out.name = "run_dedup_step" =>
        LET before == SubSeq(kern_call.data, 1, kern_call.len)
            m      == kern_out.len
        IN  /\ m = Cardinality(KeySet(before))
            /\ \A i \in 1..(m - 1) : kern_out.data[i].key < kern_out.data[i + 1].key
            /\ \A i \in 1..m :
                  /\ kern_out.data[i].key \in KeySet(before)
                  /\ kern_out.data[i] = before[LastIndexOf(before, kern_out.data[i].key)]
            /\ kern_call.len = 0 => m = 0

\* Four sorted entries with two runs of equal keys have been deduped
C27_Witness ==
    /\ kern_out.name = "run_dedup_step"
    /\ kern_call.len = 4
    /\ kern_call.data[1].key = kern_call.data[2].key
    /\ kern_call.data[1].value # kern_call.data[2].value
    /\ kern_call.data[3].key = kern_call.data[4].key
    /\ kern_call.data[3].value # kern_call.data[4].value
    /\ kern_out.len = 2
    /\ kern_out.data[1] = kern_call.data[2]
    /\ kern_out.data[2] = kern_call.data[4]

ReadOps == {"bulk_get", "bulk_delete", "range", "merge"}

\* C28: bounds invariant I3: in bulk get, bulk delete, range scan and the
\* merge stage every slab index read is smaller than the current slab
\* length, for every slab length 0..capacity and every query key, and the
\* region [len, capacity) of the slab buffer never influences a result
C28_ReadsStayBelowLength ==
    kern_out.name \in ReadOps =>
        /\ \A i \in kern_out.reads : i < kern_call.len
        /\ kern_out.result = kern_out.clean
        /\ kern_out.name # "merge" =>
              \A i \in (kern_call.len + 1)..kern_call.capacity :
                  kern_out.slab[i] = kern_call.slab[i]

\* A get of the key that the entry behind a full prefix of two entries holds
\* has read both ends of the slab and missed
C28_Witness ==
    /\ kern_out.name = "bulk_get"
    /\ kern_call.len = 2
    /\ kern_call.capacity > 2
    /\ kern_call.slab[3].key = U32_MAX
    /\ kern_call.slab[2].key = 1
    /\ kern_out.arg = <<U32_MAX>>
    /\ kern_out.reads = {1}
    /\ kern_out.result = <<NONE>>

LoopNames == {"lower_bound", "run_sort_step", "run_dedup_step", "merge", "merge_partition"}

\* C30: every submitted operation runs to completion: for every slab length
\* and batch length up to capacity the lower-bound searches, the bitonic
\* (k, j) schedule, the dedup walk, the merge loops and the merge_partition
\* co-rank search (for every k <= slab_len + input_len, shared keys included)
\* terminate
C30_EveryLoopTerminates ==
    (kern_call.name \in LoopNames) ~> (kern_out.name = "returned")

\* The co-rank search has returned after moving left, for a slab and an input
\* that share a key
C30_Witness ==
    /\ kern_call.name = "merge_partition"
    /\ kern_out.name = "returned"
    /\ Len(kern_call.slab) = 2
    /\ Len(kern_call.input) = 2
    /\ kern_call.slab[2].key = kern_call.input[1].key
    /\ kern_out.i_high < Min(kern_call.k, Len(kern_call.slab))
    /\ kern_out.i > 0

====
